---- MODULE Spec2Model ----
(***************************************************************************)
(* A model of the analytics services of ai-opencog:                        *)
(*   CognitiveAnalyticsServiceImpl  (cognitive-analytics-service-impl.ts)  *)
(*   CodeAnalyticsServiceImpl       (code-analytics-service-impl.ts)       *)
(*   InsightGenerationServiceImpl   (insight-generation-service-impl.ts)   *)
(*                                                                         *)
(* Units.  Ratios in [0,1] (accuracy, convergence, confidence) are kept in *)
(* thousandths (0.7 is 700); latency is in milliseconds; time is an        *)
(* abstract tick of Date.now().  Every async method is split at the await  *)
(* points where another call can run; what lies between two awaits is one  *)
(* atomic step, as on the JavaScript event loop.                           *)
(***************************************************************************)
EXTENDS Integers, Sequences, FiniteSets, TLC

VARIABLES
    now,                 \* the value Date.now() returns
    telemetry,           \* what the reasoning/learning collaborator reports
    performanceHistory,  \* CognitiveAnalyticsServiceImpl.performanceHistory
    pushCount,           \* number of snapshots ever pushed (object identity)
    cogCall,             \* per caller: the cognitive-analytics call in flight
    cogReturn,           \* what the call that completed last returned
    healthLog,           \* every <<observed metrics, result, call>> of a health call
    metricsHistory,      \* CodeAnalyticsServiceImpl.metricsHistory: workspace -> array
    heap,                \* the arrays of CodeEvolutionMetrics, by reference
    captureCount,        \* number of snapshots ever captured (object identity)
    codeCall,            \* per caller: the trackCodeEvolution call in flight
    codeReturn,          \* what the trackCodeEvolution call that completed last returned
    returned,            \* per workspace: the history value returned last
    callerEdits,         \* number of times a caller changed an array it was handed
    collab,              \* what the injected CodeAnalyticsService answers
    generatedInsights,   \* InsightGenerationServiceImpl.generatedInsights, in insertion order
    insightFeedback,     \* InsightGenerationServiceImpl.insightFeedback
    acknowledgedInsights, \* InsightGenerationServiceImpl.acknowledgedInsights
    insCall,             \* per caller: the insight generation pass in flight
    insReturn,           \* what the insight call that completed last returned
    passCount,           \* number of generation passes started
    ackCount,            \* number of acknowledgeInsight calls
    feedbackCount,       \* number of provideInsightFeedback calls
    helpfulCount,        \* number of them that said helpful
    rangeReturn,         \* what the time-range query that completed last returned
    architecture,        \* what the calculate* helpers of assessArchitectureQuality find
    scan                 \* what the analyze* and get*Score helpers of the code service find

cogVars == <<telemetry, performanceHistory, pushCount, cogCall, cogReturn, healthLog>>
codeVars == <<metricsHistory, heap, captureCount, codeCall, codeReturn, returned, callerEdits>>
insVars == <<collab, generatedInsights, insightFeedback, acknowledgedInsights, insCall,
             insReturn, passCount, ackCount, feedbackCount, helpfulCount>>

----------------------------------------------------------------------------
(* Bounds of the model *)

\* largest clock value
MaxTime == 1
\* capacity of the cognitive performance history (the source sets 1000,
\* cognitive-analytics-service-impl.ts:34; the model runs the same code
\* with a small capacity so that overflow is reached)
MAX_HISTORY_SIZE == 2
\* snapshots pushed in one behaviour
MaxPushes == 3
\* the retention window of the code evolution history in clock ticks (the
\* source keeps HISTORY_RETENTION_DAYS = 90 days of milliseconds,
\* code-analytics-service-impl.ts:39 and :354; a tick of the model is a
\* fraction of that window)
RetentionTicks == 1
\* snapshots captured by trackCodeEvolution in one behaviour
MaxCaptures == 3
\* changes callers make to arrays they were handed in one behaviour
MaxCallerEdits == 2
\* insight generation passes in one behaviour
MaxPasses == 2
\* acknowledgeInsight calls in one behaviour
MaxAcks == 2
\* provideInsightFeedback calls in one behaviour
MaxFeedback == 2

\* callers that can have a call in flight at the same time
Procs == {"a", "b"}
\* a caller that awaits each call before the next
Solo == {"a"}
Time == 0..MaxTime

----------------------------------------------------------------------------
(* Helpers *)

RECURSIVE SumSeq(_)
SumSeq(s) == IF s = <<>> THEN 0 ELSE Head(s) + SumSeq(Tail(s))

\* total / list.length; the readings of the model have exact means
Mean(s) == SumSeq(s) \div Len(s)

Uniform(n, v) == [i \in 1..n |-> v]

----------------------------------------------------------------------------
(* The reasoning / learning collaborator *)

NumEngines == 5
NumAlgorithms == 6

Reading(acc, lat, conv, pred, kg) ==
    [accuracy    |-> acc,    \* per engine: ReasoningEngineMetrics.accuracy
     latency     |-> lat,    \* per engine: averageLatency
     convergence |-> conv,   \* per algorithm: convergenceRate
     prediction  |-> pred,   \* per algorithm: accuracy
     kgSize      |-> kg,     \* getKnowledgeGraphSize
     patterns    |-> 450]    \* getActivePatternCount

\* a healthy system, and a critical one whose engines differ
ReadingHealthy ==
    Reading(Uniform(NumEngines, 950), Uniform(NumEngines, 100),
            Uniform(NumAlgorithms, 900), Uniform(NumAlgorithms, 900), 100)
ReadingCritical ==
    Reading(<<600, 650, 650, 650, 700>>, <<401, 501, 501, 501, 601>>,
            <<598, 598, 599, 599, 600, 600>>, Uniform(NumAlgorithms, 699), 105)

NarrowTelemetry == {ReadingHealthy, ReadingCritical}

\* accuracy below optimal and elevated latency: score 75
ReadingDegraded ==
    Reading(Uniform(NumEngines, 750), Uniform(NumEngines, 300),
            Uniform(NumAlgorithms, 900), Uniform(NumAlgorithms, 900), 100)
StatusTelemetry == {ReadingHealthy, ReadingDegraded, ReadingCritical}

\* every side of every threshold of getCognitiveSystemHealth
AccuracyValues == {650, 699, 700, 799, 800, 950}
LatencyValues == {100, 200, 201, 500, 501}
ConvergenceValues == {599, 600, 900}
PredictionValues == {699, 700, 900}

WideTelemetry ==
    {Reading(Uniform(NumEngines, a), Uniform(NumEngines, l),
             Uniform(NumAlgorithms, c), Uniform(NumAlgorithms, p), 100) :
        a \in AccuracyValues, l \in LatencyValues,
        c \in ConvergenceValues, p \in PredictionValues}

\* both sides of every threshold of getOptimizationRecommendations
RecommendationTelemetry ==
    {Reading(Uniform(NumEngines, a), Uniform(NumEngines, l),
             Uniform(NumAlgorithms, c), Uniform(NumAlgorithms, p), 100) :
        a \in {799, 800}, l \in {200, 201}, c \in {699, 700}, p \in {749, 750}}
\* sizes of the knowledge graph: shrinking, steady, and growing by less than
\* and by exactly 5% from 100
KnowledgeGraphSizes == {95, 100, 104, 105}

----------------------------------------------------------------------------
(* CognitiveAnalyticsServiceImpl *)

calculateAverageReasoningAccuracy(t) == Mean(t.accuracy)
calculateAverageReasoningLatency(t) == Mean(t.latency)
calculateAverageLearningConvergence(t) == Mean(t.convergence)
calculateAveragePredictionAccuracy(t) == Mean(t.prediction)

\* the object literal of getCognitivePerformanceMetrics; ts is the Date.now()
\* read before the awaits, n the identity of the new object
CollectMetrics(ts, t, n) ==
    [timestamp           |-> ts,
     reasoningAccuracy   |-> calculateAverageReasoningAccuracy(t),
     reasoningLatency    |-> calculateAverageReasoningLatency(t),
     learningConvergence |-> calculateAverageLearningConvergence(t),
     predictionAccuracy  |-> calculateAveragePredictionAccuracy(t),
     knowledgeGraphSize  |-> t.kgSize,
     activePatterns      |-> t.patterns,
     n                   |-> n]

MutPushNoShift(h, m) == Append(h, m)

\* performanceHistory.push(metrics); if (length > MAX_HISTORY_SIZE) shift()
PushSnapshot(h, m) ==
    LET pushed == Append(h, m)
    IN  IF Len(pushed) > MAX_HISTORY_SIZE THEN Tail(pushed) ELSE pushed

\* private calculateKnowledgeGrowthRate, in thousandths, on the history h
calculateKnowledgeGrowthRate(h) ==
    IF Len(h) < 2 THEN 100
    ELSE LET recent == h[Len(h)]
             older  == h[(IF Len(h) - 10 > 0 THEN Len(h) - 10 ELSE 0) + 1]
             \* (recent - older) / older < 0.05 is compared without rounding
             grown  == (recent.knowledgeGraphSize - older.knowledgeGraphSize) * 1000
         IN  IF grown < 0 THEN 0 ELSE grown \div older.knowledgeGraphSize

RecAccuracy == "Reasoning accuracy is below target (80%)"
RecLatency == "Reasoning latency is high"
RecConvergence == "Learning algorithms are converging slowly"
RecPrediction == "Prediction accuracy needs improvement"
RecGrowth == "Knowledge graph growth is stagnant"
RecOptimal == "Cognitive system is performing optimally"

MutRecommendationsNoFallback(m, g) ==
    (IF m.reasoningAccuracy < 800 THEN <<RecAccuracy>> ELSE <<>>)
    \o (IF m.reasoningLatency > 200 THEN <<RecLatency>> ELSE <<>>)
    \o (IF m.learningConvergence < 700 THEN <<RecConvergence>> ELSE <<>>)
    \o (IF m.predictionAccuracy < 750 THEN <<RecPrediction>> ELSE <<>>)
    \o (IF g < 50 THEN <<RecGrowth>> ELSE <<>>)

\* the rules of getOptimizationRecommendations on metrics m and growth rate g
OptimizationRecommendations(m, g) ==
    LET r1 == IF m.reasoningAccuracy < 800 THEN <<RecAccuracy>> ELSE <<>>
        r2 == IF m.reasoningLatency > 200 THEN <<RecLatency>> ELSE <<>>
        r3 == IF m.learningConvergence < 700 THEN <<RecConvergence>> ELSE <<>>
        r4 == IF m.predictionAccuracy < 750 THEN <<RecPrediction>> ELSE <<>>
        r5 == IF g < 50 THEN <<RecGrowth>> ELSE <<>>
        rs == r1 \o r2 \o r3 \o r4 \o r5
    IN  IF Len(rs) = 0 THEN <<RecOptimal>> ELSE rs

\* one check of getCognitiveSystemHealth: [issues, recommendations, penalty]
HealthCheck(issue, rec, penalty) ==
    [issues |-> <<issue>>, recommendations |-> <<rec>>, penalty |-> penalty]
NoFinding == [issues |-> <<>>, recommendations |-> <<>>, penalty |-> 0]

CheckAccuracy(m) ==
    IF m.reasoningAccuracy < 700
    THEN HealthCheck("Reasoning accuracy critically low",
                     "Immediate model retraining required", 30)
    ELSE IF m.reasoningAccuracy < 800
    THEN HealthCheck("Reasoning accuracy below optimal",
                     "Schedule model retraining", 15)
    ELSE NoFinding

\* a mutant that takes as much off for a high latency as for a critically
\* low accuracy
MutCheckLatencyHeavier(m) ==
    IF m.reasoningLatency > 500
    THEN HealthCheck("High reasoning latency detected",
                     "Optimize query patterns and implement caching", 30)
    ELSE IF m.reasoningLatency > 200
    THEN HealthCheck("Elevated reasoning latency",
                     "Review and optimize critical paths", 10)
    ELSE NoFinding

CheckLatency(m) ==
    IF m.reasoningLatency > 500
    THEN HealthCheck("High reasoning latency detected",
                     "Optimize query patterns and implement caching", 20)
    ELSE IF m.reasoningLatency > 200
    THEN HealthCheck("Elevated reasoning latency",
                     "Review and optimize critical paths", 10)
    ELSE NoFinding

CheckConvergence(m) ==
    IF m.learningConvergence < 600
    THEN HealthCheck("Learning algorithms not converging well",
                     "Review training data quality and hyperparameters", 15)
    ELSE NoFinding

CheckPrediction(m) ==
    IF m.predictionAccuracy < 700
    THEN HealthCheck("Low prediction accuracy",
                     "Enhance feature engineering and model selection", 15)
    ELSE NoFinding

HealthChecks(m) ==
    <<CheckAccuracy(m), CheckLatency(m), CheckConvergence(m), CheckPrediction(m)>>

\* let healthScore = 100; each violated check subtracts its penalty
HealthScore(m) ==
    LET c == HealthChecks(m)
    IN  100 - c[1].penalty - c[2].penalty - c[3].penalty - c[4].penalty

MutStatusOfScore(score) ==
    IF score > 80 THEN "healthy" ELSE IF score >= 50 THEN "degraded" ELSE "critical"

\* "Determine overall status"
StatusOfScore(score) ==
    IF score >= 80 THEN "healthy" ELSE IF score >= 50 THEN "degraded" ELSE "critical"

\* a health result that remembers: a degraded or critical system stays
\* unhealthy while the history still holds a snapshot below the accuracy target
MutHealthWithMemory(m) ==
    LET c == HealthChecks(m)
        sticky == \E i \in 1..Len(performanceHistory) :
                      performanceHistory[i].n # m.n
                      /\ performanceHistory[i].reasoningAccuracy < 700
        status == StatusOfScore(HealthScore(m))
    IN  [status          |-> IF sticky /\ status = "healthy" THEN "degraded" ELSE status,
         issues          |-> c[1].issues \o c[2].issues \o c[3].issues \o c[4].issues,
         recommendations |-> c[1].recommendations \o c[2].recommendations
                             \o c[3].recommendations \o c[4].recommendations]

\* what getCognitiveSystemHealth returns for the metrics m it collected
SystemHealth(m) ==
    LET c == HealthChecks(m)
    IN  [status          |-> StatusOfScore(HealthScore(m)),
         issues          |-> c[1].issues \o c[2].issues \o c[3].issues \o c[4].issues,
         recommendations |-> c[1].recommendations \o c[2].recommendations
                             \o c[3].recommendations \o c[4].recommendations]

----------------------------------------------------------------------------
(* CodeAnalyticsServiceImpl: trackCodeEvolution *)

Workspaces == {"w1", "w2"}
NoRef == 0

\* the object captureCurrentMetrics returns; n is the identity of the object
CaptureCurrentMetrics(ts, n) ==
    [timestamp |-> ts, linesAdded |-> 0, codeQualityScore |-> 75, n |-> n]

\* metrics.findIndex(m => m.timestamp >= cutoffTime): 0-based, -1 if none
RECURSIVE FindIndexFrom(_, _, _)
FindIndexFrom(metrics, cutoffTime, i) ==
    IF i > Len(metrics) THEN -1
    ELSE IF metrics[i].timestamp >= cutoffTime THEN i - 1
    ELSE FindIndexFrom(metrics, cutoffTime, i + 1)

\* pruneOldMetrics at clock value t
PruneOldMetrics(metrics, t) ==
    LET cutoffTime == t - RetentionTicks
        index == FindIndexFrom(metrics, cutoffTime, 1)
    IN  IF index > 0 THEN SubSeq(metrics, index + 1, Len(metrics)) ELSE metrics

MutPushTwice(metrics, current) == Append(Append(metrics, current), current)

\* metrics.push(currentMetrics)
PushCurrent(metrics, current) == Append(metrics, current)

NoSnapshot == [timestamp |-> 0, n |-> 0]
IdleTrack == [pc |-> "idle", ws |-> "none", ref |-> NoRef,
              current |-> NoSnapshot, overlapped |-> FALSE]
\* value: the contents of the returned array at the return; prev: what the
\* call before it on the same workspace returned; sequential: no other call
\* on the workspace was in flight during the call
NoTrackReturn == [op |-> "none", ws |-> "none", ref |-> NoRef, value |-> <<>>,
                  prev |-> <<>>, captured |-> NoSnapshot, at |-> 0,
                  sequential |-> FALSE]

\* calls that will still capture a snapshot
CodePending == Cardinality({q \in Procs : codeCall[q].pc = "load"})

\* the frames, with every other call on workspace w marked as overlapping
MarkOverlap(w) ==
    [q \in Procs |->
        IF codeCall[q].pc # "idle" /\ codeCall[q].ws = w
        THEN [codeCall[q] EXCEPT !.overlapped = TRUE] ELSE codeCall[q]]

Overlaps(p, w) ==
    \E q \in Procs \ {p} : codeCall[q].pc # "idle" /\ codeCall[q].ws = w

\* trackCodeEvolution(w) on a workspace the map does not hold: up to the
\* await of loadHistoricalMetrics, which returns a new empty array
TrackStartLoad(p, w) ==
    /\ codeCall[p].pc = "idle"
    /\ captureCount + CodePending < MaxCaptures
    /\ metricsHistory[w] = NoRef
    /\ heap' = Append(heap, <<>>)
    /\ codeCall' = [MarkOverlap(w) EXCEPT ![p] =
                       [IdleTrack EXCEPT !.pc = "load", !.ws = w,
                                         !.ref = Len(heap) + 1,
                                         !.overlapped = Overlaps(p, w)]]
    /\ UNCHANGED <<scan, rangeReturn, architecture, now, cogVars, insVars, metricsHistory, captureCount, codeReturn,
                   returned, callerEdits>>

\* the call resumes: metricsHistory.set(w, metrics), then up to the await of
\* captureCurrentMetrics, which has read Date.now()
TrackLoaded(p) ==
    /\ codeCall[p].pc = "load"
    /\ metricsHistory' = [metricsHistory EXCEPT ![codeCall[p].ws] = codeCall[p].ref]
    /\ captureCount' = captureCount + 1
    /\ codeCall' = [codeCall EXCEPT ![p].pc = "capture",
                       ![p].current = CaptureCurrentMetrics(now, captureCount + 1)]
    /\ UNCHANGED <<scan, rangeReturn, architecture, now, cogVars, insVars, heap, codeReturn, returned, callerEdits>>

\* trackCodeEvolution(w) on a workspace the map holds: up to the await of
\* captureCurrentMetrics
TrackStartCapture(p, w) ==
    /\ codeCall[p].pc = "idle"
    /\ captureCount + CodePending < MaxCaptures
    /\ metricsHistory[w] # NoRef
    /\ captureCount' = captureCount + 1
    /\ codeCall' = [MarkOverlap(w) EXCEPT ![p] =
                       [IdleTrack EXCEPT !.pc = "capture", !.ws = w,
                                         !.ref = metricsHistory[w],
                                         !.current = CaptureCurrentMetrics(now, captureCount + 1),
                                         !.overlapped = Overlaps(p, w)]]
    /\ UNCHANGED <<scan, rangeReturn, architecture, now, cogVars, insVars, metricsHistory, heap, codeReturn, returned,
                   callerEdits>>

\* the call resumes: push, prune, return the array itself
TrackCodeEvolution(p) ==
    /\ codeCall[p].pc = "capture"
    /\ LET c == codeCall[p]
           after == PruneOldMetrics(PushCurrent(heap[c.ref], c.current), now)
       IN  /\ heap' = [heap EXCEPT ![c.ref] = after]
           /\ codeReturn' = [op |-> "track", ws |-> c.ws, ref |-> c.ref,
                             value |-> after, prev |-> returned[c.ws],
                             captured |-> c.current, at |-> now,
                             sequential |-> ~c.overlapped]
           /\ returned' = [returned EXCEPT ![c.ws] =
                              <<[value |-> after, sequential |-> ~c.overlapped]>>]
    /\ codeCall' = [codeCall EXCEPT ![p] = IdleTrack]
    /\ UNCHANGED <<scan, rangeReturn, architecture, now, cogVars, insVars, metricsHistory, captureCount, callerEdits>>

\* The clock of the code history moves in ticks of the retention scale.  The
\* awaits of trackCodeEvolution resolve without I/O, so no such tick passes
\* between captureCurrentMetrics reading Date.now() and pruneOldMetrics.
CodeTick ==
    /\ now < MaxTime + RetentionTicks
    /\ \A p \in Procs : codeCall[p].pc # "capture"
    /\ now' = now + 1
    /\ UNCHANGED <<scan, rangeReturn, architecture, cogVars, codeVars, insVars>>

\* The caller that was handed the array last changes it in place.
CallerChange(after) ==
    /\ codeReturn.op = "track"
    /\ callerEdits < MaxCallerEdits
    /\ after # heap[codeReturn.ref]
    /\ heap' = [heap EXCEPT ![codeReturn.ref] = after]
    /\ callerEdits' = callerEdits + 1
    /\ UNCHANGED <<scan, rangeReturn, architecture, now, cogVars, insVars, metricsHistory, captureCount, codeCall,
                   codeReturn, returned>>

Reverse(s) == [i \in 1..Len(s) |-> s[Len(s) + 1 - i]]

\* history.reverse(), to show the newest snapshot first
CallerReverse == CallerChange(Reverse(heap[codeReturn.ref]))

\* history.pop()
CallerPop ==
    /\ codeReturn.op = "track"
    /\ heap[codeReturn.ref] # <<>>
    /\ CallerChange(SubSeq(heap[codeReturn.ref], 1, Len(heap[codeReturn.ref]) - 1))

\* history.push(snapshot of the caller's own)
CallerPush ==
    CallerChange(Append(heap[codeReturn.ref], CaptureCurrentMetrics(now, 0)))

\* history[0].codeQualityScore = 0
CallerEdit ==
    /\ codeReturn.op = "track"
    /\ heap[codeReturn.ref] # <<>>
    /\ CallerChange([heap[codeReturn.ref] EXCEPT ![1].codeQualityScore = 0])

\* what calculateModularity, calculateCohesion, calculateMaintainability and
\* calculateTestability can find: each side of 60 and of 80, and the value
\* the shipped helper returns
ModularityValues == {55, 59, 60, 75, 80, 81}
CohesionValues == {55, 59, 60, 70, 80, 81}
MaintainabilityValues == {55, 59, 60, 78, 80, 81}
TestabilityValues == {55, 59, 60, 72, 80, 81}
\* calculateCoupling (lower is better): each side of 20 and of 40
CouplingValues == {19, 20, 35, 40, 41}

Scores(modularity, cohesion, coupling, maintainability, testability) ==
    [modularity |-> modularity, cohesion |-> cohesion, coupling |-> coupling,
     maintainability |-> maintainability, testability |-> testability]
\* the helpers as shipped
ShippedArchitecture == Scores(75, 80, 35, 78, 72)
WideArchitecture ==
    {Scores(m, c, k, mt, t) :
        m \in ModularityValues, c \in CohesionValues, k \in CouplingValues,
        mt \in MaintainabilityValues, t \in TestabilityValues}

NoEntry == [weakPoints |-> <<>>, strengths |-> <<>>]

\* a mutant whose weak zone includes 60
MutScoreEntryWeakAt60(score, weak, strong) ==
    IF score <= 60 THEN [weakPoints |-> <<weak>>, strengths |-> <<>>]
    ELSE IF score > 80 THEN [weakPoints |-> <<>>, strengths |-> <<strong>>]
    ELSE NoEntry
\* if (score < 60) weakPoints.push(weak); else if (score > 80) strengths.push(strong)
ScoreEntry(score, weak, strong) ==
    IF score < 60 THEN [weakPoints |-> <<weak>>, strengths |-> <<>>]
    ELSE IF score > 80 THEN [weakPoints |-> <<>>, strengths |-> <<strong>>]
    ELSE NoEntry

\* if (coupling > 40) weakPoints.push(...); else if (coupling < 20) strengths.push(...)
CouplingEntry(coupling) ==
    IF coupling > 40
    THEN [weakPoints |-> <<"High coupling - modules are too interdependent">>,
          strengths |-> <<>>]
    ELSE IF coupling < 20
    THEN [weakPoints |-> <<>>,
          strengths |-> <<"Low coupling - good separation of concerns">>]
    ELSE NoEntry

WeakMessage(metric) ==
    CASE metric = "modularity" -> "Low modularity - consider breaking down large modules"
      [] metric = "cohesion" ->
             "Low cohesion - modules have too many unrelated responsibilities"
      [] metric = "maintainability" -> "Low maintainability - code is difficult to modify"
      [] metric = "testability" -> "Low testability - code is difficult to test"

StrengthMessage(metric) ==
    CASE metric = "modularity" -> "Excellent modularity"
      [] metric = "cohesion" -> "High cohesion - well-focused modules"
      [] metric = "maintainability" -> "High maintainability"
      [] metric = "testability" -> "High testability"

\* the value assessArchitectureQuality resolves with; overallScore in
\* thousandths
ArchitectureQuality(modularity, cohesion, coupling, maintainability, testability) ==
    LET Entry(metric, score) ==
            ScoreEntry(score, WeakMessage(metric), StrengthMessage(metric))
        entries == <<Entry("modularity", modularity), Entry("cohesion", cohesion),
                     CouplingEntry(coupling),
                     Entry("maintainability", maintainability),
                     Entry("testability", testability)>>
    IN  [op |-> "assessArchitectureQuality",
         modularity |-> modularity, cohesion |-> cohesion, coupling |-> coupling,
         maintainability |-> maintainability, testability |-> testability,
         overallScore |-> ((modularity + cohesion + (100 - coupling) + maintainability
                            + testability) * 1000) \div 5,
         weakPoints |-> entries[1].weakPoints \o entries[2].weakPoints
                        \o entries[3].weakPoints \o entries[4].weakPoints
                        \o entries[5].weakPoints,
         strengths |-> entries[1].strengths \o entries[2].strengths
                       \o entries[3].strengths \o entries[4].strengths
                       \o entries[5].strengths]

\* assessArchitectureQuality(workspaceRoot): the five helpers it awaits read
\* no field of the service; the workspace root is not read
AssessArchitectureQuality ==
    /\ codeReturn' = ArchitectureQuality(architecture.modularity, architecture.cohesion,
                                         architecture.coupling,
                                         architecture.maintainability,
                                         architecture.testability)
    /\ UNCHANGED <<scan, rangeReturn, architecture, now, cogVars, insVars, metricsHistory, heap, captureCount,
                   codeCall, returned, callerEdits>>

----------------------------------------------------------------------------
(* analyzeTechnicalDebt *)

\* the keys of debtByCategory in the order analyzeTechnicalDebt awaits their
\* analyzers and inserts them
DebtCategories == <<"code-smell", "duplication", "complexity", "deprecated", "security">>

\* what awaiting an analyzer gives: the promise is fulfilled with a number
\* of hours, or it is rejected (the scan it stands for is unavailable)
Fulfilled(hours) == [ok |-> TRUE, hours |-> hours]
Rejected == [ok |-> FALSE, hours |-> 0]

\* the analyzers as shipped: analyzeCodeSmells 12, analyzeDuplication 8,
\* analyzeComplexity 15, analyzeDeprecatedAPIs 6, analyzeSecurityDebt 10
ShippedDebt ==
    [c \in {DebtCategories[i] : i \in 1..Len(DebtCategories)} |->
        CASE c = "code-smell" -> Fulfilled(12)
          [] c = "duplication" -> Fulfilled(8)
          [] c = "complexity" -> Fulfilled(15)
          [] c = "deprecated" -> Fulfilled(6)
          [] c = "security" -> Fulfilled(10)]

\* the sub-scores as shipped: getComplexityScore 75, getDuplicationScore 80,
\* getCoverageScore 70, getDocumentationScore 65, getStyleComplianceScore 85
SubScores(complexity, duplication, coverage, documentation, styleCompliance) ==
    [complexity |-> complexity, duplication |-> duplication, coverage |-> coverage,
     documentation |-> documentation, styleCompliance |-> styleCompliance]
ShippedQuality == SubScores(75, 80, 70, 65, 85)

ShippedScan == [debt |-> ShippedDebt, quality |-> ShippedQuality]

\* every analyzer answering as shipped, with a value on the other side of
\* the threshold generateDebtRecommendations compares it with (or 0), or not
\* at all
AnalyzerOutcomes(c) ==
    {ShippedDebt[c], Rejected,
     CASE c = "complexity" -> Fulfilled(10)
       [] c = "duplication" -> Fulfilled(5)
       [] OTHER -> Fulfilled(0)}
WideDebt ==
    {d \in [DOMAIN ShippedDebt -> {Fulfilled(h) : h \in {0, 5, 6, 8, 10, 12, 15}}
                                  \cup {Rejected}] :
        \A c \in DOMAIN ShippedDebt : d[c] \in AnalyzerOutcomes(c)}

\* identifyCriticalDebtIssues pushes one issue
CriticalDebtIssues == 1

RecCritical == "Address critical security and stability issues immediately"
RecComplexity == "Prioritize complexity reduction through refactoring"
RecDuplication == "Eliminate code duplication through extraction and reuse"

\* debtByCategory.get(c) || 0 on the map as a sequence of <<key, hours>>
DebtOf(debtByCategory, c) ==
    LET hits == SelectSeq(debtByCategory, LAMBDA e : e[1] = c)
    IN  IF hits = <<>> THEN 0 ELSE hits[1][2]

generateDebtRecommendations(debtByCategory, criticalIssues) ==
    (IF criticalIssues > 0 THEN <<RecCritical>> ELSE <<>>)
    \o (IF DebtOf(debtByCategory, "complexity") > 10 THEN <<RecComplexity>> ELSE <<>>)
    \o (IF DebtOf(debtByCategory, "duplication") > 5 THEN <<RecDuplication>> ELSE <<>>)

\* the index of the first analyzer, in await order, whose promise is
\* rejected; 0 when none is
FirstRejected(debt) ==
    LET failing == {i \in 1..Len(DebtCategories) : ~debt[DebtCategories[i]].ok}
    IN  IF failing = {} THEN 0 ELSE CHOOSE i \in failing : \A j \in failing : i <= j

\* the settlement of the promise analyzeTechnicalDebt returns.  An await on
\* a rejected promise throws; the method has no try/catch, so the exception
\* leaves it and rejects its promise, and nothing after that await runs.
TechnicalDebtAnalysis(debt) ==
    LET debtByCategory == [i \in 1..Len(DebtCategories) |->
                              <<DebtCategories[i], debt[DebtCategories[i]].hours>>]
    IN  IF FirstRejected(debt) # 0
        THEN [op |-> "analyzeTechnicalDebt", outcome |-> "rejected",
              thrownBy |-> DebtCategories[FirstRejected(debt)],
              totalDebt |-> 0, debtByCategory |-> <<>>, criticalIssues |-> 0,
              recommendations |-> <<>>, trend |-> "none"]
        ELSE [op |-> "analyzeTechnicalDebt", outcome |-> "resolved",
              thrownBy |-> "none",
              totalDebt |-> SumSeq([i \in 1..Len(debtByCategory) |-> debtByCategory[i][2]]),
              debtByCategory |-> debtByCategory,
              criticalIssues |-> CriticalDebtIssues,
              recommendations |-> generateDebtRecommendations(debtByCategory,
                                                              CriticalDebtIssues),
              trend |-> "stable"]

\* analyzeTechnicalDebt(workspaceRoot): reads and writes no field of the
\* service; everything it builds is local to the call
AnalyzeTechnicalDebt ==
    /\ codeReturn' = TechnicalDebtAnalysis(scan.debt)
    /\ UNCHANGED <<scan, rangeReturn, architecture, now, cogVars, insVars, metricsHistory,
                   heap, captureCount, codeCall, returned, callerEdits>>


----------------------------------------------------------------------------
(* getCodeQualityScore *)

(* The method computes in IEEE 754 double precision.  A number of the model   *)
(* is a natural number of units of 2^-55, written as its binary digits, least *)
(* significant first, without leading zeros: 2^-55 is the spacing of doubles  *)
(* at 0.15, the smallest weight, and every product and partial sum of the     *)
(* method is either 0 or at least that large, hence a whole number of units.  *)

RECURSIVE Binary(_)
\* the digits of the natural number n
Binary(n) == IF n = 0 THEN <<>> ELSE <<n % 2>> \o Binary(n \div 2)

\* the low 16 digits of n, zeros included
Binary16(n) == [i \in 1..16 |-> (n \div (2 ^ (i - 1))) % 2]

RECURSIVE BinaryAdd(_, _, _)
\* a + b + carry
BinaryAdd(a, b, carry) ==
    IF a = <<>> /\ b = <<>> THEN Binary(carry)
    ELSE LET t == (IF a = <<>> THEN 0 ELSE Head(a)) + (IF b = <<>> THEN 0 ELSE Head(b))
                  + carry
         IN  <<t % 2>> \o BinaryAdd(IF a = <<>> THEN a ELSE Tail(a),
                                    IF b = <<>> THEN b ELSE Tail(b), t \div 2)

RECURSIVE BinaryTimes(_, _, _)
\* a * n + carry, for a natural number n
BinaryTimes(a, n, carry) ==
    IF a = <<>> THEN Binary(carry)
    ELSE LET t == Head(a) * n + carry
         IN  IF n = 0 THEN <<>> ELSE <<t % 2>> \o BinaryTimes(Tail(a), n, t \div 2)

\* digits of a double's significand
SignificandBits == 53

\* the double nearest to a, ties to the even significand: the rounding every
\* * and + of the method ends with
RoundToDouble(a) ==
    IF Len(a) <= SignificandBits THEN a
    ELSE LET dropped == Len(a) - SignificandBits
             kept == SubSeq(a, dropped + 1, Len(a))
             half == a[dropped] = 1
             more == \E i \in 1..(dropped - 1) : a[i] = 1
             up == half /\ (more \/ kept[1] = 1)
         IN  [i \in 1..dropped |-> 0]
             \o (IF up THEN BinaryAdd(kept, <<1>>, 0) ELSE kept)

\* the literals 0.25, 0.2 and 0.15 as doubles: 2^53, 0x1999999999999A and
\* 0x13333333333333 units
Quarter == [i \in 1..(SignificandBits + 1) |-> IF i = SignificandBits + 1 THEN 1 ELSE 0]
Fifth == Binary16(39322) \o Binary16(39321) \o Binary16(39321) \o Binary(25)
ThreeTwentieths == Binary16(13107) \o Binary16(13107) \o Binary16(13107) \o Binary(19)

\* score * weight and x + y in double precision; a sub-score is a whole
\* number here
DoubleTimes(score, weight) == RoundToDouble(BinaryTimes(weight, score, 0))
DoublePlus(x, y) == RoundToDouble(BinaryAdd(x, y, 0))

\* a mutant with the weights of complexity and duplication exchanged
MutWeightsExchanged(q) ==
    DoublePlus(DoublePlus(DoublePlus(DoublePlus(
        DoubleTimes(q.complexity, Fifth),
        DoubleTimes(q.duplication, Quarter)),
        DoubleTimes(q.coverage, Quarter)),
        DoubleTimes(q.documentation, ThreeTwentieths)),
        DoubleTimes(q.styleCompliance, ThreeTwentieths))

\* the weighted average, summed from left to right
CodeQualityScore(q) ==
    DoublePlus(DoublePlus(DoublePlus(DoublePlus(
        DoubleTimes(q.complexity, Quarter),
        DoubleTimes(q.duplication, Fifth)),
        DoubleTimes(q.coverage, Quarter)),
        DoubleTimes(q.documentation, ThreeTwentieths)),
        DoubleTimes(q.styleCompliance, ThreeTwentieths))

\* sub-scores at the ends of [0,100], as shipped, and where the rounding of
\* the products shows
SubScoreValues(shipped) == {0, 13, 19, 100, shipped}
WideQuality ==
    {SubScores(c, d, cov, doc, style) :
        c \in SubScoreValues(ShippedQuality.complexity),
        d \in SubScoreValues(ShippedQuality.duplication),
        cov \in SubScoreValues(ShippedQuality.coverage),
        doc \in SubScoreValues(ShippedQuality.documentation),
        style \in SubScoreValues(ShippedQuality.styleCompliance)}

\* getCodeQualityScore(path): reads and writes no field of the service; the
\* path is not read
GetCodeQualityScore ==
    /\ codeReturn' = [op |-> "getCodeQualityScore", value |-> CodeQualityScore(scan.quality)]
    /\ UNCHANGED <<scan, rangeReturn, architecture, now, cogVars, insVars, metricsHistory,
                   heap, captureCount, codeCall, returned, callerEdits>>

CodeIdle ==
    /\ metricsHistory = [w \in Workspaces |-> NoRef]
    /\ heap = <<>>
    /\ captureCount = 0
    /\ codeCall = [p \in Procs |-> IdleTrack]
    /\ codeReturn = NoTrackReturn
    /\ returned = [w \in Workspaces |-> <<>>]
    /\ callerEdits = 0

NoMetrics == [timestamp |-> 0, n |-> 0]
IdleCall == [pc |-> "idle", op |-> "none", timestamp |-> 0, metrics |-> NoMetrics]
NoReturn == [op |-> "none", metrics |-> NoMetrics, result |-> <<>>]

\* the four values a health call reads from its snapshot
Observed(m) ==
    <<m.reasoningAccuracy, m.reasoningLatency, m.learningConvergence,
      m.predictionAccuracy>>

\* calls that have read the clock and not yet pushed their snapshot
CogPending ==
    Cardinality({q \in Procs : cogCall[q].pc = "started"})
    + Cardinality({q \in Procs : insCall[q].pc = "health"})

\* A caller invokes one of the three methods that collect a snapshot; the
\* method reads Date.now() and awaits the collaborator.
CogStart(p, op) ==
    /\ cogCall[p].pc = "idle"
    /\ pushCount + CogPending < MaxPushes
    /\ cogCall' = [cogCall EXCEPT ![p] =
                      [IdleCall EXCEPT !.pc = "started", !.op = op, !.timestamp = now]]
    /\ UNCHANGED <<scan, rangeReturn, architecture, now, telemetry, performanceHistory, pushCount, cogReturn, healthLog, codeVars, insVars>>

\* getCognitivePerformanceMetrics completes: the snapshot is built, pushed
\* and returned
GetCognitivePerformanceMetrics(p) ==
    /\ cogCall[p].pc = "started" /\ cogCall[p].op = "metrics"
    /\ LET m == CollectMetrics(cogCall[p].timestamp, telemetry, pushCount + 1)
       IN  /\ performanceHistory' = PushSnapshot(performanceHistory, m)
           /\ pushCount' = pushCount + 1
           /\ cogCall' = [cogCall EXCEPT ![p] = IdleCall]
           /\ cogReturn' = [op |-> "metrics", metrics |-> m, result |-> m]
    /\ UNCHANGED <<scan, rangeReturn, architecture, now, telemetry, healthLog, codeVars, insVars>>

\* getOptimizationRecommendations, up to the return of the awaited
\* getCognitivePerformanceMetrics
RecommendationsCollect(p) ==
    /\ cogCall[p].pc = "started" /\ cogCall[p].op = "recommendations"
    /\ LET m == CollectMetrics(cogCall[p].timestamp, telemetry, pushCount + 1)
       IN  /\ performanceHistory' = PushSnapshot(performanceHistory, m)
           /\ pushCount' = pushCount + 1
           /\ cogCall' = [cogCall EXCEPT ![p].pc = "collected", ![p].metrics = m]
    /\ UNCHANGED <<scan, rangeReturn, architecture, now, telemetry, cogReturn, healthLog, codeVars, insVars>>

\* getOptimizationRecommendations resumes: the rules, then the growth rate
\* of the history as it is now
GetOptimizationRecommendations(p) ==
    /\ cogCall[p].pc = "collected"
    /\ cogReturn' = [op |-> "recommendations", metrics |-> cogCall[p].metrics,
                     result |-> OptimizationRecommendations(cogCall[p].metrics,
                                    calculateKnowledgeGrowthRate(performanceHistory))]
    /\ cogCall' = [cogCall EXCEPT ![p] = IdleCall]
    /\ UNCHANGED <<scan, rangeReturn, architecture, now, telemetry, performanceHistory, pushCount, healthLog, codeVars, insVars>>

\* getCognitiveSystemHealth completes
GetCognitiveSystemHealth(p) ==
    /\ cogCall[p].pc = "started" /\ cogCall[p].op = "health"
    /\ LET m == CollectMetrics(cogCall[p].timestamp, telemetry, pushCount + 1)
           r == SystemHealth(m)
       IN  /\ performanceHistory' = PushSnapshot(performanceHistory, m)
           /\ pushCount' = pushCount + 1
           /\ cogCall' = [cogCall EXCEPT ![p] = IdleCall]
           /\ cogReturn' = [op |-> "health", metrics |-> m, result |-> r]
           /\ healthLog' = healthLog \cup {<<Observed(m), r, m.n>>}
    /\ UNCHANGED <<scan, rangeReturn, architecture, now, telemetry, codeVars, insVars>>

\* the collaborator's telemetry changes
TelemetryChange ==
    /\ \E t \in NarrowTelemetry : t # telemetry /\ telemetry' = t
    /\ UNCHANGED <<scan, rangeReturn, architecture, now, performanceHistory, pushCount, cogCall, cogReturn, healthLog, codeVars, insVars>>

\* getKnowledgeGraphSize answers differently from one call to the next
KnowledgeChange ==
    /\ \E kg \in KnowledgeGraphSizes :
          /\ kg # telemetry.kgSize
          /\ telemetry' = [telemetry EXCEPT !.kgSize = kg]
    /\ UNCHANGED <<scan, rangeReturn, architecture, now, performanceHistory, pushCount, cogCall, cogReturn, healthLog, codeVars, insVars>>

Tick ==
    /\ now < MaxTime
    /\ now' = now + 1
    /\ UNCHANGED <<scan, rangeReturn, architecture, cogVars, codeVars, insVars>>

----------------------------------------------------------------------------
(* InsightGenerationServiceImpl *)

\* What the injected CodeAnalyticsService answers to the four questions the
\* generators ask: the severities of the predicted bottlenecks, the debt
\* analysis (hours and number of critical issues), the refactoring
\* opportunities and the security risk level.
Opportunity(priority, benefit) == [priority |-> priority, benefit |-> benefit]
Answers(b, d, c, r, s) ==
    [bottlenecks |-> b, totalDebt |-> d, criticalIssues |-> c,
     refactoring |-> r, riskLevel |-> s]

\* the answers of CodeAnalyticsServiceImpl as shipped
ShippedAnswers ==
    Answers(<<"high">>, 51, 1,
            <<Opportunity("high", 85), Opportunity("medium", 70)>>, "medium")
\* every generator has something to report
AlarmingAnswers ==
    Answers(<<"low", "critical">>, 120, 2,
            <<Opportunity("high", 60), Opportunity("high", 80)>>, "critical")
NarrowAnswers == {ShippedAnswers, AlarmingAnswers}

BottleneckAnswers == {<<"high">>, <<"low", "medium">>}
DebtAnswers == {<<40, 0>>, <<41, 0>>, <<51, 1>>, <<120, 0>>}
RefactoringAnswers ==
    {<<Opportunity("high", 85), Opportunity("medium", 70)>>,
     <<Opportunity("high", 66)>>}
RiskAnswers == {"medium", "high", "critical"}
\* the shipped answers with one of them replaced: debt hours on both sides
\* of 40, 80 and 100 with and without critical issues, refactoring benefits
\* at the ends of [0,100], every risk level, bottleneck lists of every kind
GeneratorAnswers ==
    {[ShippedAnswers EXCEPT !.totalDebt = d, !.criticalIssues = c] :
        d \in {0, 40, 41, 80, 81, 100, 120}, c \in {0, 1, 2}}
    \cup {[ShippedAnswers EXCEPT !.refactoring = r] :
              r \in {<<>>, <<Opportunity("medium", 70)>>, <<Opportunity("high", 0)>>,
                     <<Opportunity("high", 100)>>,
                     <<Opportunity("high", 100), Opportunity("high", 0)>>}}
    \cup {[ShippedAnswers EXCEPT !.riskLevel = s] :
              s \in {"low", "medium", "high", "critical"}}
    \cup {[ShippedAnswers EXCEPT !.bottlenecks = b] :
              b \in {<<>>, <<"low", "medium">>, <<"low", "critical">>}}

WideAnswers ==
    {Answers(b, d[1], d[2], r, s) :
        b \in BottleneckAnswers, d \in DebtAnswers, r \in RefactoringAnswers,
        s \in RiskAnswers}

\* `perf-${Date.now()}-1` and the like: prefix, clock reading, suffix
InsightId(prefix, t, k) == <<prefix, t, k>>

\* id and timestamp are two readings of Date.now() in one object literal
Insight(prefix, k, category, priority, impact, confidence, t) ==
    [id |-> InsightId(prefix, t, k), category |-> category, priority |-> priority,
     impact |-> impact, confidence |-> confidence, timestamp |-> t]

\* a mutant that reports only a critical status
MutDegradationOnlyCritical(health, t) ==
    IF health.status = "critical"
    THEN <<Insight("perf", 1, "performance", "critical", 85, 920, t)>>
    ELSE <<>>
\* generatePerformanceInsights after getCognitiveSystemHealth returned
DegradationInsight(health, t) ==
    IF health.status = "degraded" \/ health.status = "critical"
    THEN <<Insight("perf", 1, "performance",
                   IF health.status = "critical" THEN "critical" ELSE "high",
                   85, 920, t)>>
    ELSE <<>>

\* generatePerformanceInsights after predictPerformanceBottlenecks returned
BottleneckInsight(bottlenecks, t) ==
    LET IsCritical(b) == b = "critical" \/ b = "high"
        criticalBottlenecks == SelectSeq(bottlenecks, IsCritical)
    IN  IF Len(bottlenecks) > 0 /\ Len(criticalBottlenecks) > 0
        THEN <<Insight("perf", 2, "performance", "high", 75, 850, t)>>
        ELSE <<>>

\* a mutant that takes the debt hours as the impact
MutQualityNoClamp(totalDebt, criticalIssues, t) ==
    (IF totalDebt > 40
     THEN <<Insight("quality", 1, "quality",
                    IF totalDebt > 80 THEN "critical" ELSE "high", totalDebt, 880, t)>>
     ELSE <<>>)
    \o (IF criticalIssues > 0
        THEN <<Insight("quality", 2, "quality", "critical", 90, 950, t)>>
        ELSE <<>>)
\* a mutant that escalates at 80 hours already
MutQualityCriticalAt80(totalDebt, criticalIssues, t) ==
    (IF totalDebt > 40
     THEN <<Insight("quality", 1, "quality",
                    IF totalDebt >= 80 THEN "critical" ELSE "high",
                    IF totalDebt < 100 THEN totalDebt ELSE 100, 880, t)>>
     ELSE <<>>)
    \o (IF criticalIssues > 0
        THEN <<Insight("quality", 2, "quality", "critical", 90, 950, t)>>
        ELSE <<>>)
\* generateQualityInsights after analyzeTechnicalDebt returned
QualityInsights(totalDebt, criticalIssues, t) ==
    (IF totalDebt > 40
     THEN <<Insight("quality", 1, "quality",
                    IF totalDebt > 80 THEN "critical" ELSE "high",
                    IF totalDebt < 100 THEN totalDebt ELSE 100, 880, t)>>
     ELSE <<>>)
    \o (IF criticalIssues > 0
        THEN <<Insight("quality", 2, "quality", "critical", 90, 950, t)>>
        ELSE <<>>)

\* generateProductivityInsights after identifyRefactoringOpportunities returned
ProductivityInsights(refactoringOps, t) ==
    LET IsHigh(op) == op.priority = "high"
        highPriorityOps == SelectSeq(refactoringOps, IsHigh)
        benefits == [i \in 1..Len(highPriorityOps) |-> highPriorityOps[i].benefit]
    IN  IF Len(highPriorityOps) > 0
        THEN <<Insight("productivity", 1, "productivity", "medium",
                       Mean(benefits), 820, t)>>
        ELSE <<>>

\* generateSecurityInsights after assessSecurityRisks returned
SecurityInsights(riskLevel, t) ==
    IF riskLevel = "critical" \/ riskLevel = "high"
    THEN <<Insight("security", 1, "security",
                   IF riskLevel = "critical" THEN "critical" ELSE "high",
                   95, 900, t)>>
    ELSE <<>>

\* a mutant of Map.set that keeps the value of a known key
MutMapSetIfAbsent(store, insight) ==
    IF \E i \in 1..Len(store) : store[i].id = insight.id
    THEN store
    ELSE Append(store, insight)
\* Map.set: a new key goes last, a known key keeps its place
MapSet(store, insight) ==
    IF \E i \in 1..Len(store) : store[i].id = insight.id
    THEN [i \in 1..Len(store) |->
             IF store[i].id = insight.id THEN insight ELSE store[i]]
    ELSE Append(store, insight)

RECURSIVE StoreInsights(_, _)
\* insights.forEach(insight => this.generatedInsights.set(insight.id, insight))
StoreInsights(store, insights) ==
    IF insights = <<>> THEN store
    ELSE StoreInsights(MapSet(store, Head(insights)), Tail(insights))

priorityWeight(priority) ==
    CASE priority = "critical" -> 4
      [] priority = "high" -> 3
      [] priority = "medium" -> 2
      [] priority = "low" -> 1

\* priorityWeight[a.priority] * a.impact * a.confidence, in thousandths
InsightScore(a) == priorityWeight(a.priority) * a.impact * a.confidence

\* the comparator of getPrioritizedInsights: bScore - aScore
MutCompareAscending(a, b) == InsightScore(a) - InsightScore(b)
CompareByScore(a, b) == InsightScore(b) - InsightScore(a)

\* Array.prototype.sort is stable: x goes behind everything it does not
\* strictly precede
InsertSorted(sorted, x) ==
    LET before == {i \in 1..Len(sorted) : CompareByScore(x, sorted[i]) < 0}
        at == IF before = {} THEN Len(sorted) + 1
              ELSE CHOOSE i \in before : \A j \in before : i <= j
    IN  SubSeq(sorted, 1, at - 1) \o <<x>> \o SubSeq(sorted, at, Len(sorted))

RECURSIVE SortInsights(_)
SortInsights(s) ==
    IF s = <<>> THEN <<>>
    ELSE InsertSorted(SortInsights(SubSeq(s, 1, Len(s) - 1)), s[Len(s)])

\* Array.prototype.slice(0, limit) for limit >= 0
Slice(s, limit) == SubSeq(s, 1, IF limit < Len(s) THEN limit ELSE Len(s))

\* the body of getPrioritizedInsights once generateInsights returned
PrioritizedInsights(allInsights, limit) == Slice(SortInsights(allInsights), limit)

\* the body of getPersonalizedInsights once generateInsights returned
MutPersonalizedNoFilter(allInsights, acknowledged) == Slice(allInsights, 5)
\* a mutant that filters by finding: an acknowledged id hides every insight
\* of its generator and rule, whenever generated
MutPersonalizedByFinding(allInsights, acknowledged) ==
    LET Fresh(insight) ==
            \A a \in acknowledged : a[1] # insight.id[1] \/ a[3] # insight.id[3]
    IN  Slice(SelectSeq(allInsights, Fresh), 5)
PersonalizedInsights(allInsights, acknowledged) ==
    LET Fresh(insight) == insight.id \notin acknowledged
    IN  Slice(SelectSeq(allInsights, Fresh), 5)

\* this.acknowledgedInsights.add(insightId)
MutAcknowledgeToggle(acknowledged, insightId) ==
    IF insightId \in acknowledged THEN acknowledged \ {insightId}
    ELSE acknowledged \cup {insightId}
AcknowledgeAdd(acknowledged, insightId) == acknowledged \cup {insightId}

\* the limits callers pass to getPrioritizedInsights; 10 is the default
Limits == {0, 2, 5, 10}
\* an id no generator ever produced
UnknownId == InsightId("unknown", 0, 0)

IdlePass ==
    [pc |-> "idle", op |-> "none", timestamp |-> 0, insights |-> <<>>,
     category |-> "none", status |-> "none"]
NoInsightReturn ==
    [op |-> "none", all |-> <<>>, result |-> <<>>, limit |-> 0,
     acknowledged |-> {}, id |-> UnknownId, value |-> 0, before |-> <<>>,
     category |-> "none", status |-> "none"]

InsightIdle ==
    /\ generatedInsights = <<>>
    /\ insightFeedback = <<>>
    /\ acknowledgedInsights = {}
    /\ insCall = [p \in Procs |-> IdlePass]
    /\ insReturn = NoInsightReturn
    /\ passCount = 0
    /\ ackCount = 0
    /\ feedbackCount = 0
    /\ helpfulCount = 0

\* the injected CodeAnalyticsService answers differently from now on
CollabChange ==
    /\ \E c \in NarrowAnswers : c # collab /\ collab' = c
    /\ UNCHANGED <<scan, rangeReturn, architecture, now, cogVars, codeVars, generatedInsights, insightFeedback,
                   acknowledgedInsights, insCall, insReturn, passCount, ackCount,
                   feedbackCount, helpfulCount>>

\* A caller invokes generateInsights, getPrioritizedInsights or
\* getPersonalizedInsights. Each begins a pass: generateInsights calls
\* generatePerformanceInsights, which calls getCognitiveSystemHealth, which
\* reads Date.now() for its snapshot and awaits the collaborator.
InsightStart(p, op) ==
    /\ insCall[p].pc = "idle"
    /\ passCount < MaxPasses
    /\ pushCount + CogPending < MaxPushes
    /\ insCall' = [insCall EXCEPT ![p] =
                      [IdlePass EXCEPT !.pc = "health", !.op = op, !.timestamp = now]]
    /\ passCount' = passCount + 1
    /\ UNCHANGED <<scan, rangeReturn, architecture, now, cogVars, codeVars, collab, generatedInsights, insightFeedback,
                   acknowledgedInsights, insReturn, ackCount, feedbackCount, helpfulCount>>

\* getCognitiveSystemHealth completes (its snapshot is pushed onto the
\* performance history) and generatePerformanceInsights resumes up to its
\* second await
PerformanceHealth(p) ==
    /\ insCall[p].pc = "health"
    /\ LET m == CollectMetrics(insCall[p].timestamp, telemetry, pushCount + 1)
           cognitiveHealth == SystemHealth(m)
       IN  /\ performanceHistory' = PushSnapshot(performanceHistory, m)
           /\ pushCount' = pushCount + 1
           /\ healthLog' = healthLog \cup {<<Observed(m), cognitiveHealth, m.n>>}
           /\ insCall' = [insCall EXCEPT ![p].pc = "bottlenecks",
                             ![p].status = cognitiveHealth.status,
                             ![p].insights = DegradationInsight(cognitiveHealth, now)]
    /\ UNCHANGED <<scan, rangeReturn, architecture, now, telemetry, cogCall, cogReturn, codeVars, collab, generatedInsights,
                   insightFeedback, acknowledgedInsights, insReturn, passCount, ackCount, feedbackCount, helpfulCount>>

\* a mutant in which each generator puts what it produced into the store at
\* once, before the pass is complete
MutGeneratorStepStores(p, pc, next, produced) ==
    /\ insCall[p].pc = pc
    /\ insCall' = [insCall EXCEPT
                      ![p].pc = IF insCall[p].op = "category" THEN "return" ELSE next,
                      ![p].insights = insCall[p].insights \o produced]
    /\ generatedInsights' = StoreInsights(generatedInsights, produced)
    /\ UNCHANGED <<scan, rangeReturn, architecture, now, cogVars, codeVars, collab, insightFeedback,
                   acknowledgedInsights, insReturn, passCount, ackCount, feedbackCount, helpfulCount>>

\* a generator resumes with the collaborator's answer and runs to its
\* return, to generateInsights or to generateInsightsByCategory
GeneratorStep(p, pc, next, produced) ==
    /\ insCall[p].pc = pc
    /\ insCall' = [insCall EXCEPT
                      ![p].pc = IF insCall[p].op = "category" THEN "return" ELSE next,
                      ![p].insights = insCall[p].insights \o produced]
    /\ UNCHANGED <<scan, rangeReturn, architecture, now, cogVars, codeVars, collab, generatedInsights, insightFeedback,
                   acknowledgedInsights, insReturn, passCount, ackCount, feedbackCount, helpfulCount>>

GeneratePerformanceInsights(p) ==
    GeneratorStep(p, "bottlenecks", "quality", BottleneckInsight(collab.bottlenecks, now))

GenerateQualityInsights(p) ==
    GeneratorStep(p, "quality", "productivity",
                  QualityInsights(collab.totalDebt, collab.criticalIssues, now))

GenerateProductivityInsights(p) ==
    GeneratorStep(p, "productivity", "security",
                  ProductivityInsights(collab.refactoring, now))

GenerateSecurityInsights(p) ==
    GeneratorStep(p, "security", "store", SecurityInsights(collab.riskLevel, now))

\* generateInsights resumes after the last generator: it stores the pass
\* and returns it, to the caller or to the method that awaits it
GenerateInsights(p) ==
    /\ insCall[p].pc = "store"
    /\ generatedInsights' = StoreInsights(generatedInsights, insCall[p].insights)
    /\ IF insCall[p].op = "generate"
       THEN /\ insCall' = [insCall EXCEPT ![p] = IdlePass]
            /\ insReturn' = [NoInsightReturn EXCEPT !.op = "generate",
                                !.all = insCall[p].insights,
                                !.result = insCall[p].insights,
                                !.status = insCall[p].status,
                                !.before = generatedInsights]
       ELSE /\ insCall' = [insCall EXCEPT ![p].pc = "generated"]
            /\ UNCHANGED insReturn
    /\ UNCHANGED <<scan, rangeReturn, architecture, now, cogVars, codeVars, collab, insightFeedback, acknowledgedInsights,
                   passCount, ackCount, feedbackCount, helpfulCount>>

\* getPrioritizedInsights resumes: sort, slice, return. The limit is an
\* argument of the call that nothing reads before this point.
GetPrioritizedInsights(p, limit) ==
    /\ insCall[p].pc = "generated" /\ insCall[p].op = "prioritized"
    /\ insReturn' = [NoInsightReturn EXCEPT !.op = "prioritized",
                        !.all = insCall[p].insights, !.limit = limit,
                        !.status = insCall[p].status,
                        !.result = PrioritizedInsights(insCall[p].insights, limit)]
    /\ insCall' = [insCall EXCEPT ![p] = IdlePass]
    /\ UNCHANGED <<scan, rangeReturn, architecture, now, cogVars, codeVars, collab, generatedInsights, insightFeedback,
                   acknowledgedInsights, passCount, ackCount, feedbackCount, helpfulCount>>

\* getPersonalizedInsights resumes: filter, slice, return
GetPersonalizedInsights(p) ==
    /\ insCall[p].pc = "generated" /\ insCall[p].op = "personalized"
    /\ insReturn' = [NoInsightReturn EXCEPT !.op = "personalized",
                        !.all = insCall[p].insights,
                        !.status = insCall[p].status,
                        !.acknowledged = acknowledgedInsights,
                        !.result = PersonalizedInsights(insCall[p].insights,
                                                        acknowledgedInsights)]
    /\ insCall' = [insCall EXCEPT ![p] = IdlePass]
    /\ UNCHANGED <<scan, rangeReturn, architecture, now, cogVars, codeVars, collab, generatedInsights, insightFeedback,
                   acknowledgedInsights, passCount, ackCount, feedbackCount, helpfulCount>>

Categories == {"performance", "quality", "productivity", "security", "collaboration"}

\* the switch of generateInsightsByCategory: where the chosen generator
\* first awaits; generateCollaborationInsights awaits nothing
FirstAwait(category) ==
    CASE category = "performance" -> "health"
      [] category = "quality" -> "quality"
      [] category = "productivity" -> "productivity"
      [] category = "security" -> "security"
      [] category = "collaboration" -> "return"

\* A caller invokes generateInsightsByCategory(category); the performance
\* generator begins with getCognitiveSystemHealth, which reads Date.now()
CategoryStart(p, category) ==
    /\ insCall[p].pc = "idle"
    /\ passCount < MaxPasses
    /\ category = "performance" => pushCount + CogPending < MaxPushes
    /\ insCall' = [insCall EXCEPT ![p] =
                      [IdlePass EXCEPT !.pc = FirstAwait(category), !.op = "category",
                                       !.category = category, !.timestamp = now]]
    /\ passCount' = passCount + 1
    /\ UNCHANGED <<scan, rangeReturn, architecture, now, cogVars, codeVars, collab, generatedInsights, insightFeedback,
                   acknowledgedInsights, insReturn, ackCount, feedbackCount, helpfulCount>>

\* a mutant that stores what the generator returned, as generateInsights does
MutCategoryStores(p) ==
    /\ insCall[p].pc = "return"
    /\ insReturn' = [NoInsightReturn EXCEPT !.op = "category",
                        !.category = insCall[p].category,
                        !.status = insCall[p].status,
                        !.all = insCall[p].insights,
                        !.result = insCall[p].insights]
    /\ insCall' = [insCall EXCEPT ![p] = IdlePass]
    /\ generatedInsights' = StoreInsights(generatedInsights, insCall[p].insights)
    /\ UNCHANGED <<scan, rangeReturn, architecture, now, cogVars, codeVars, collab, insightFeedback,
                   acknowledgedInsights, passCount, ackCount, feedbackCount, helpfulCount>>

\* generateInsightsByCategory returns what its generator returned
GenerateInsightsByCategory(p) ==
    /\ insCall[p].pc = "return"
    /\ insReturn' = [NoInsightReturn EXCEPT !.op = "category",
                        !.category = insCall[p].category,
                        !.status = insCall[p].status,
                        !.all = insCall[p].insights,
                        !.result = insCall[p].insights]
    /\ insCall' = [insCall EXCEPT ![p] = IdlePass]
    /\ UNCHANGED <<scan, rangeReturn, architecture, now, cogVars, codeVars, collab, generatedInsights, insightFeedback,
                   acknowledgedInsights, passCount, ackCount, feedbackCount, helpfulCount>>

\* the ids a caller was handed last, and one it made up
KnownIds == {insReturn.result[i].id : i \in 1..Len(insReturn.result)} \cup {UnknownId}

\* acknowledgeInsight(insightId); the return records the set as it was
\* before the call
AcknowledgeInsight(insightId) ==
    /\ ackCount < MaxAcks
    /\ acknowledgedInsights' = AcknowledgeAdd(acknowledgedInsights, insightId)
    /\ ackCount' = ackCount + 1
    /\ insReturn' = [NoInsightReturn EXCEPT !.op = "acknowledge", !.id = insightId,
                        !.acknowledged = acknowledgedInsights]
    /\ UNCHANGED <<scan, rangeReturn, architecture, now, cogVars, codeVars, collab, generatedInsights, insightFeedback,
                   insCall, passCount, feedbackCount, helpfulCount>>

\* a mutant that sets the list of the id to the new record alone
MutFeedbackPushReplaces(feedback, insightId, record) ==
    IF \E i \in 1..Len(feedback) : feedback[i].id = insightId
    THEN [i \in 1..Len(feedback) |->
             IF feedback[i].id = insightId
             THEN [feedback[i] EXCEPT !.list = <<record>>]
             ELSE feedback[i]]
    ELSE Append(feedback, [id |-> insightId, list |-> <<record>>])

\* has, set(insightId, []) when absent, get(insightId).push(record); the
\* map is kept as its entries in insertion order
FeedbackPush(feedback, insightId, record) ==
    IF \E i \in 1..Len(feedback) : feedback[i].id = insightId
    THEN [i \in 1..Len(feedback) |->
             IF feedback[i].id = insightId
             THEN [feedback[i] EXCEPT !.list = Append(@, record)]
             ELSE feedback[i]]
    ELSE Append(feedback, [id |-> insightId, list |-> <<record>>])

\* a mutant of provideInsightFeedback that acknowledges the insight as well
MutFeedbackAcknowledges(insightId, helpful) ==
    /\ feedbackCount < MaxFeedback
    /\ insightFeedback' = FeedbackPush(insightFeedback, insightId, [helpful |-> helpful])
    /\ acknowledgedInsights' = acknowledgedInsights \cup {insightId}
    /\ feedbackCount' = feedbackCount + 1
    /\ helpfulCount' = helpfulCount + (IF helpful THEN 1 ELSE 0)
    /\ insReturn' = [NoInsightReturn EXCEPT !.op = "feedback", !.id = insightId]
    /\ UNCHANGED <<scan, rangeReturn, architecture, now, cogVars, codeVars, collab, generatedInsights, insCall,
                   passCount, ackCount>>
\* provideInsightFeedback(insightId, helpful, comment); the comment is stored
\* beside `helpful` and nothing reads it
ProvideInsightFeedback(insightId, helpful) ==
    /\ feedbackCount < MaxFeedback
    /\ insightFeedback' = FeedbackPush(insightFeedback, insightId, [helpful |-> helpful])
    /\ feedbackCount' = feedbackCount + 1
    /\ helpfulCount' = helpfulCount + (IF helpful THEN 1 ELSE 0)
    /\ insReturn' = [NoInsightReturn EXCEPT !.op = "feedback", !.id = insightId]
    /\ UNCHANGED <<scan, rangeReturn, architecture, now, cogVars, codeVars, collab, generatedInsights,
                   acknowledgedInsights, insCall, passCount, ackCount>>

\* the two nested forEach loops of getInsightAcceptanceRate, then the
\* quotient, in thousandths
MutRatePerInsight(feedback) ==
    LET helpful == [i \in 1..Len(feedback) |->
                       Cardinality({j \in 1..Len(feedback[i].list) :
                                       feedback[i].list[j].helpful})]
        totalFeedback == Len(feedback)
        helpfulCnt == SumSeq(helpful)
    IN  IF totalFeedback > 0 THEN (helpfulCnt * 1000) \div totalFeedback ELSE 0
InsightAcceptanceRate(feedback) ==
    LET helpful == [i \in 1..Len(feedback) |->
                       Cardinality({j \in 1..Len(feedback[i].list) :
                                       feedback[i].list[j].helpful})]
        totalFeedback == SumSeq([i \in 1..Len(feedback) |-> Len(feedback[i].list)])
        helpfulCnt == SumSeq(helpful)
    IN  IF totalFeedback > 0 THEN (helpfulCnt * 1000) \div totalFeedback ELSE 0

\* getInsightAcceptanceRate()
GetInsightAcceptanceRate ==
    /\ insReturn' = [NoInsightReturn EXCEPT !.op = "rate",
                        !.value = InsightAcceptanceRate(insightFeedback)]
    /\ UNCHANGED <<scan, rangeReturn, architecture, now, cogVars, codeVars, collab, generatedInsights, insightFeedback,
                   acknowledgedInsights, insCall, passCount, ackCount, feedbackCount,
                   helpfulCount>>

PassSteps ==
    \/ \E p \in Procs : PerformanceHealth(p)
    \/ \E p \in Procs : GeneratePerformanceInsights(p)
    \/ \E p \in Procs : GenerateQualityInsights(p)
    \/ \E p \in Procs : GenerateProductivityInsights(p)
    \/ \E p \in Procs : GenerateSecurityInsights(p)
    \/ \E p \in Procs : GenerateInsights(p)

----------------------------------------------------------------------------
(* The queries over a time range, of the three services *)

\* data points of getMetricTrend and of trackLearningConvergence
TrendDataPoints == 20
ConvergenceDataPoints == 20

NoRangeReturn ==
    [op |-> "none", start |-> 0, end |-> 0, outcome |-> "none", points |-> <<>>]

\* every call resolves; no path of the four methods throws or rejects
RangeReturn(op, start, end, points) ==
    [op |-> op, start |-> start, end |-> end, outcome |-> "resolved", points |-> points]

\* the comparator of getHistoricalInsights: b.timestamp - a.timestamp
CompareByTimestamp(a, b) == b.timestamp - a.timestamp

\* Array.prototype.sort is stable
InsertByTimestamp(sorted, x) ==
    LET before == {i \in 1..Len(sorted) : CompareByTimestamp(x, sorted[i]) < 0}
        at == IF before = {} THEN Len(sorted) + 1
              ELSE CHOOSE i \in before : \A j \in before : i <= j
    IN  SubSeq(sorted, 1, at - 1) \o <<x>> \o SubSeq(sorted, at, Len(sorted))

RECURSIVE SortByTimestamp(_)
SortByTimestamp(s) ==
    IF s = <<>> THEN <<>>
    ELSE InsertByTimestamp(SortByTimestamp(SubSeq(s, 1, Len(s) - 1)), s[Len(s)])

\* the forEach of getHistoricalInsights, then the sort
MutHistoricalEndExclusive(store, start, end) ==
    LET InRange(insight) == insight.timestamp >= start /\ insight.timestamp < end
    IN  SortByTimestamp(SelectSeq(store, InRange))
HistoricalInsights(store, start, end) ==
    LET InRange(insight) == insight.timestamp >= start /\ insight.timestamp <= end
    IN  SortByTimestamp(SelectSeq(store, InRange))

\* the filter and map of trackReasoningAccuracy
ReasoningAccuracyPoints(history, start, end) ==
    LET InRange(h) == h.timestamp >= start /\ h.timestamp <= end
        filtered == SelectSeq(history, InRange)
    IN  [i \in 1..Len(filtered) |->
            [timestamp |-> filtered[i].timestamp, accuracy |-> filtered[i].reasoningAccuracy]]

\* the loop of getMetricTrend and of trackLearningConvergence: point i is at
\* start + ((end - start) / n) * i; timestamps in n-ths of a clock tick, the
\* simulated value beside each is left out
SimulatedPoints(start, end, n) ==
    [k \in 1..n |-> [timestamp |-> n * start + (end - start) * (k - 1)]]

RangeFrame ==
    UNCHANGED <<now, scan, architecture, cogVars, codeVars, insVars>>

\* getHistoricalInsights(timeRange)
GetHistoricalInsights(start, end) ==
    /\ rangeReturn' = RangeReturn("getHistoricalInsights", start, end,
                                  HistoricalInsights(generatedInsights, start, end))
    /\ RangeFrame

\* a mutant that collects a snapshot of its own before it reads the history
MutTrackReasoningAccuracyCollects(start, end) ==
    /\ pushCount < MaxPushes
    /\ LET m == CollectMetrics(now, telemetry, pushCount + 1)
           history == PushSnapshot(performanceHistory, m)
       IN  /\ performanceHistory' = history
           /\ pushCount' = pushCount + 1
           /\ rangeReturn' = RangeReturn("trackReasoningAccuracy", start, end,
                                         ReasoningAccuracyPoints(history, start, end))
    /\ UNCHANGED <<now, scan, architecture, telemetry, cogCall, cogReturn, healthLog,
                   codeVars, insVars>>

\* trackReasoningAccuracy(timeRange)
TrackReasoningAccuracy(start, end) ==
    /\ rangeReturn' = RangeReturn("trackReasoningAccuracy", start, end,
                                  ReasoningAccuracyPoints(performanceHistory, start, end))
    /\ RangeFrame

\* trackLearningConvergence(algorithmId, timeRange); the algorithm id is not read
TrackLearningConvergence(start, end) ==
    /\ rangeReturn' = RangeReturn("trackLearningConvergence", start, end,
                                  SimulatedPoints(start, end, ConvergenceDataPoints))
    /\ RangeFrame

\* getMetricTrend(metric, timeRange); the metric name is not read
GetMetricTrend(start, end) ==
    /\ rangeReturn' = RangeReturn("getMetricTrend", start, end,
                                  SimulatedPoints(start, end, TrendDataPoints))
    /\ RangeFrame

RangeQueries ==
    \/ \E start, end \in Time : GetHistoricalInsights(start, end)
    \/ \E start, end \in Time : TrackReasoningAccuracy(start, end)
    \/ \E start, end \in Time : TrackLearningConvergence(start, end)
    \/ \E start, end \in Time : GetMetricTrend(start, end)

vars == <<now, cogVars, codeVars, insVars, rangeReturn, architecture, scan>>

CogInit ==
    /\ now = 0
    /\ CodeIdle
    /\ InsightIdle
    /\ rangeReturn = NoRangeReturn
    /\ performanceHistory = <<>>
    /\ pushCount = 0
    /\ cogCall = [p \in Procs |-> IdleCall]
    /\ cogReturn = NoReturn
    /\ healthLog = {}

CogCalls ==
    \/ \E p \in Procs : CogStart(p, "metrics")
    \/ \E p \in Procs : CogStart(p, "recommendations")
    \/ \E p \in Procs : CogStart(p, "health")
    \/ \E p \in Procs : GetCognitivePerformanceMetrics(p)
    \/ \E p \in Procs : RecommendationsCollect(p)
    \/ \E p \in Procs : GetOptimizationRecommendations(p)
    \/ \E p \in Procs : GetCognitiveSystemHealth(p)

\* The cognitive analytics engine under concurrent callers and changing
\* telemetry.
Init ==
    /\ CogInit
    /\ scan = ShippedScan
    /\ architecture = ShippedArchitecture
    /\ telemetry \in NarrowTelemetry
    /\ collab = ShippedAnswers

Next ==
    \/ CogCalls
    \/ TelemetryChange
    \/ Tick

Spec == Init /\ [][Next]_vars

\* The cognitive analytics engine on every combination of metric values
\* around the thresholds; the telemetry stays what it is.
InitHealth ==
    /\ CogInit
    /\ scan = ShippedScan
    /\ architecture = ShippedArchitecture
    /\ telemetry \in WideTelemetry
    /\ collab = ShippedAnswers

NextHealth ==
    \/ \E p \in Procs : CogStart(p, "health")
    \/ \E p \in Procs : GetCognitiveSystemHealth(p)
    \/ Tick

SpecHealth == InitHealth /\ [][NextHealth]_vars

\* The code analytics engine under concurrent trackCodeEvolution calls.
InitCode ==
    /\ CogInit
    /\ scan = ShippedScan
    /\ architecture = ShippedArchitecture
    /\ telemetry = ReadingHealthy
    /\ collab = ShippedAnswers

TrackCalls ==
    \/ \E p \in Procs : \E w \in Workspaces : TrackStartLoad(p, w)
    \/ \E p \in Procs : TrackLoaded(p)
    \/ \E p \in Procs : \E w \in Workspaces : TrackStartCapture(p, w)
    \/ \E p \in Procs : TrackCodeEvolution(p)

NextCode ==
    \/ TrackCalls
    \/ CodeTick

SpecCode == InitCode /\ [][NextCode]_vars

\* The same engine with callers that change, in place, the array they were
\* handed.
NextCaller ==
    \/ TrackCalls
    \/ CodeTick
    \/ CallerReverse
    \/ CallerPop
    \/ CallerPush
    \/ CallerEdit

SpecCaller == InitCode /\ [][NextCaller]_vars

\* getPrioritizedInsights for every combination of collaborator answers
\* around the generators' thresholds; the answers stay what they are.
InitRank ==
    /\ CogInit
    /\ scan = ShippedScan
    /\ architecture = ShippedArchitecture
    /\ telemetry \in NarrowTelemetry
    /\ collab \in WideAnswers

NextRank ==
    \/ \E p \in Solo : InsightStart(p, "prioritized")
    \/ PassSteps
    \/ \E p \in Procs : \E limit \in Limits : GetPrioritizedInsights(p, limit)
    \/ Tick

SpecRank == InitRank /\ [][NextRank]_vars

\* The insight engine under concurrent passes and acknowledgements.
InitInsight ==
    /\ CogInit
    /\ scan = ShippedScan
    /\ architecture = ShippedArchitecture
    /\ \/ telemetry = ReadingHealthy /\ collab = ShippedAnswers
       \/ telemetry = ReadingCritical /\ collab = AlarmingAnswers

NextInsight ==
    \/ \E p \in Solo : InsightStart(p, "generate")
    \/ \E p \in Solo : InsightStart(p, "personalized")
    \/ PassSteps
    \/ \E p \in Procs : GetPersonalizedInsights(p)
    \/ \E id \in KnownIds : AcknowledgeInsight(id)
    \/ Tick

SpecInsight == InitInsight /\ [][NextInsight]_vars

\* Each generator alone, through generateInsightsByCategory, on collaborator
\* answers around its thresholds; the answers stay what they are.
InitGenerators ==
    /\ CogInit
    /\ scan = ShippedScan
    /\ architecture = ShippedArchitecture
    /\ telemetry \in StatusTelemetry
    /\ collab \in GeneratorAnswers

NextGenerators ==
    \/ \E p \in Solo : \E category \in Categories : CategoryStart(p, category)
    \/ \E p \in Solo : PerformanceHealth(p)
    \/ \E p \in Solo : GeneratePerformanceInsights(p)
    \/ \E p \in Solo : GenerateQualityInsights(p)
    \/ \E p \in Solo : GenerateProductivityInsights(p)
    \/ \E p \in Solo : GenerateSecurityInsights(p)
    \/ \E p \in Solo : GenerateInsightsByCategory(p)
    \/ Tick

SpecGenerators == InitGenerators /\ [][NextGenerators]_vars

\* assessArchitectureQuality on every combination of helper results around
\* its thresholds.
InitArchitecture ==
    /\ CogInit
    /\ scan = ShippedScan
    /\ architecture \in WideArchitecture
    /\ telemetry = ReadingHealthy
    /\ collab = ShippedAnswers

NextArchitecture ==
    \/ AssessArchitectureQuality
    \/ Tick

SpecArchitecture == InitArchitecture /\ [][NextArchitecture]_vars

\* analyzeTechnicalDebt with every analyzer answering on either side of its
\* threshold or being unavailable.
InitDebt ==
    /\ CogInit
    /\ scan \in {[debt |-> d, quality |-> ShippedQuality] : d \in WideDebt}
    /\ architecture = ShippedArchitecture
    /\ telemetry = ReadingHealthy
    /\ collab = ShippedAnswers

NextDebt ==
    \/ AnalyzeTechnicalDebt
    \/ Tick

SpecDebt == InitDebt /\ [][NextDebt]_vars

\* getOptimizationRecommendations on both sides of each of its thresholds,
\* with a knowledge graph that changes size between the calls.
InitRecommendations ==
    /\ CogInit
    /\ scan = ShippedScan
    /\ architecture = ShippedArchitecture
    /\ telemetry \in RecommendationTelemetry
    /\ collab = ShippedAnswers

NextRecommendations ==
    \/ \E p \in Procs : CogStart(p, "recommendations")
    \/ \E p \in Procs : RecommendationsCollect(p)
    \/ \E p \in Procs : GetOptimizationRecommendations(p)
    \/ KnowledgeChange

SpecRecommendations == InitRecommendations /\ [][NextRecommendations]_vars

\* getCodeQualityScore on sub-scores from the whole of [0,100].
InitQuality ==
    /\ CogInit
    /\ scan \in {[debt |-> ShippedDebt, quality |-> q] : q \in WideQuality}
    /\ architecture = ShippedArchitecture
    /\ telemetry = ReadingHealthy
    /\ collab = ShippedAnswers

NextQuality == GetCodeQualityScore

SpecQuality == InitQuality /\ [][NextQuality]_vars

\* The queries over a time range, on the store and the performance history
\* that generateInsights passes fill.
InitRange ==
    /\ CogInit
    /\ scan = ShippedScan
    /\ architecture = ShippedArchitecture
    /\ telemetry = ReadingHealthy
    /\ collab = ShippedAnswers

NextRange ==
    \/ \E p \in Solo : InsightStart(p, "generate")
    \/ PassSteps
    \/ RangeQueries
    \/ Tick

SpecRange == InitRange /\ [][NextRange]_vars

\* generateInsights and the store while the collaborator's answers change.
InitStore ==
    /\ CogInit
    /\ scan = ShippedScan
    /\ architecture = ShippedArchitecture
    /\ telemetry = ReadingCritical
    /\ collab \in NarrowAnswers

NextStore ==
    \/ \E p \in Solo : InsightStart(p, "generate")
    \/ PassSteps
    \/ CollabChange
    \/ Tick

SpecStore == InitStore /\ [][NextStore]_vars

\* Overlapping generateInsights calls of two callers and a reader of the
\* store that runs between any two of their steps.
InitAtomic ==
    /\ CogInit
    /\ scan = ShippedScan
    /\ architecture = ShippedArchitecture
    /\ telemetry = ReadingCritical
    /\ collab = AlarmingAnswers

NextAtomic ==
    \/ \E p \in Procs : InsightStart(p, "generate")
    \/ PassSteps
    \/ GetHistoricalInsights(0, MaxTime)
    \/ Tick

SpecAtomic == InitAtomic /\ [][NextAtomic]_vars

\* The four methods that run generators, one call after the other, with
\* acknowledgements in between.
InitFrame ==
    /\ CogInit
    /\ scan = ShippedScan
    /\ architecture = ShippedArchitecture
    /\ telemetry = ReadingCritical
    /\ collab = AlarmingAnswers

NextFrame ==
    \/ \E p \in Solo : \E op \in {"generate", "prioritized", "personalized"} :
          InsightStart(p, op)
    \/ \E p \in Solo : \E category \in Categories : CategoryStart(p, category)
    \/ PassSteps
    \/ \E p \in Procs : GetPrioritizedInsights(p, 2)
    \/ \E p \in Procs : GetPersonalizedInsights(p)
    \/ \E p \in Procs : GenerateInsightsByCategory(p)
    \/ \E id \in KnownIds : AcknowledgeInsight(id)

SpecFrame == InitFrame /\ [][NextFrame]_vars

\* The readers of the cognitive engine: health and recommendation calls of
\* two callers, generateInsights passes, and the two tracking queries.
InitReaders ==
    /\ CogInit
    /\ scan = ShippedScan
    /\ architecture = ShippedArchitecture
    /\ telemetry = ReadingCritical
    /\ collab = ShippedAnswers

NextReaders ==
    \/ \E p \in Procs : CogStart(p, "health")
    \/ \E p \in Procs : CogStart(p, "recommendations")
    \/ \E p \in Procs : GetCognitiveSystemHealth(p)
    \/ \E p \in Procs : RecommendationsCollect(p)
    \/ \E p \in Procs : GetOptimizationRecommendations(p)
    \/ \E p \in Solo : InsightStart(p, "generate")
    \/ PassSteps
    \/ TrackReasoningAccuracy(0, MaxTime)
    \/ TrackLearningConvergence(0, MaxTime)

SpecReaders == InitReaders /\ [][NextReaders]_vars

\* Acknowledgement and feedback on the insights of the shipped collaborators.
InitFeedback ==
    /\ CogInit
    /\ scan = ShippedScan
    /\ architecture = ShippedArchitecture
    /\ telemetry = ReadingHealthy
    /\ collab = ShippedAnswers

NextFeedback ==
    \/ \E p \in Solo : InsightStart(p, "generate")
    \/ PassSteps
    \/ \E id \in KnownIds : AcknowledgeInsight(id)
    \/ \E id \in KnownIds : \E helpful \in BOOLEAN : ProvideInsightFeedback(id, helpful)
    \/ GetInsightAcceptanceRate

SpecFeedback == InitFeedback /\ [][NextFeedback]_vars

----------------------------------------------------------------------------
(* Claims about CognitiveAnalyticsServiceImpl *)

\* the score of C1, written from its statement
C1_Score(o) ==
    100 - (IF o[1] < 700 THEN 30 ELSE IF o[1] < 800 THEN 15 ELSE 0)
        - (IF o[2] > 500 THEN 20 ELSE IF o[2] > 200 THEN 10 ELSE 0)
        - (IF o[3] < 600 THEN 15 ELSE 0)
        - (IF o[4] < 700 THEN 15 ELSE 0)

C1_Class(score) ==
    CASE score >= 80 -> "healthy"
      [] score >= 50 /\ score < 80 -> "degraded"
      [] score < 50 -> "critical"

\* C1: getCognitiveSystemHealth returns the status of the penalty rule
\* (100, minus 30/15 for accuracy, 20/10 for latency, 15 for convergence,
\* 15 for prediction accuracy; >= 80 healthy, >= 50 degraded, else critical)
\* for the snapshot it collected; (0.65, 100, 0.9, 0.9) is degraded and
\* (0.95, 100, 0.9, 0.9) is healthy.
C1_HealthFollowsPenaltyRule ==
    cogReturn.op = "health" =>
        LET o == Observed(cogReturn.metrics)
        IN  /\ cogReturn.result.status = C1_Class(C1_Score(o))
            /\ (o = <<650, 100, 900, 900>> => cogReturn.result.status = "degraded")
            /\ (o = <<950, 100, 900, 900>> => cogReturn.result.status = "healthy")

\* a health call has returned degraded for the first example
C1_Witness ==
    /\ cogReturn.op = "health"
    /\ Observed(cogReturn.metrics) = <<650, 100, 900, 900>>
    /\ cogReturn.result.status = "degraded"

\* C2: the health result has no memory: any two health calls that observed
\* the same four metric values returned the same status, issues and
\* recommendations, whatever the history held and whatever earlier calls
\* returned.
C2_HealthHasNoMemory ==
    \A x \in healthLog : \A y \in healthLog : x[1] = y[1] => x[2] = y[2]

\* two health calls observed the same values, and a call between them
\* returned another status
C2_Witness ==
    \E x \in healthLog : \E y \in healthLog : \E z \in healthLog :
        /\ x[3] < z[3] /\ z[3] < y[3]
        /\ x[1] = y[1]
        /\ z[2].status # x[2].status

\* C3: the performance history never holds more than MAX_HISTORY_SIZE
\* snapshots where another operation can observe it, and it always holds
\* the most recently appended snapshots in the order they were appended (so
\* a push onto a full history removed the snapshot appended earliest).
C3_HistoryBoundedOldestEvicted ==
    /\ Len(performanceHistory) <= MAX_HISTORY_SIZE
    /\ Len(performanceHistory) =
           (IF pushCount < MAX_HISTORY_SIZE THEN pushCount ELSE MAX_HISTORY_SIZE)
    /\ \A i \in 1..Len(performanceHistory) :
           performanceHistory[i].n = pushCount - Len(performanceHistory) + i

\* a snapshot has been evicted while another call is in flight
C3_Witness ==
    /\ pushCount > MAX_HISTORY_SIZE
    /\ Len(performanceHistory) = MAX_HISTORY_SIZE
    /\ \E p \in Procs : cogCall[p].pc = "collected"

----------------------------------------------------------------------------
(* Claims about CodeAnalyticsServiceImpl.trackCodeEvolution *)

Ids(history) == {history[i].n : i \in 1..Len(history)}

\* the last two calls on a workspace ran one after the other, alone
C4_TwoSequentialCalls ==
    /\ codeReturn.op = "track"
    /\ codeReturn.sequential
    /\ codeReturn.prev # <<>>
    /\ codeReturn.prev[1].sequential

\* C4: of two sequential trackCodeEvolution calls on a workspace, the second
\* returns a history one snapshot longer than the first returned, less the
\* snapshots of the first that the second pruned, and its last element is
\* the snapshot the second captured.
C4_SecondCallGrowsByOneNetOfPruning ==
    C4_TwoSequentialCalls =>
        LET first  == codeReturn.prev[1].value
            second == codeReturn.value
            pruned == Cardinality(Ids(first) \ Ids(second))
        IN  /\ Len(second) = Len(first) + 1 - pruned
            /\ second[Len(second)] = codeReturn.captured
            /\ codeReturn.captured.n \notin Ids(first)

\* a second sequential call has pruned a snapshot of the first
C4_Witness ==
    /\ C4_TwoSequentialCalls
    /\ Ids(codeReturn.prev[1].value) \ Ids(codeReturn.value) # {}
    /\ codeReturn.value[Len(codeReturn.value)] = codeReturn.captured

\* C5: when trackCodeEvolution returns, no snapshot of the returned history
\* is older than the clock at the return minus the retention window,
\* whatever the order of the snapshots the call found.
C5_NoRetainedSnapshotOlderThanRetention ==
    codeReturn.op = "track" =>
        \A i \in 1..Len(codeReturn.value) :
            codeReturn.value[i].timestamp >= codeReturn.at - RetentionTicks

\* C6: trackCodeEvolution returns an owned copy: a caller changing what it
\* was handed does not change the history the engine holds for any
\* workspace, and no step of the engine changes the array a caller was
\* handed.
C6_ReturnedHistoryIsOwnedCopy ==
    [][/\ callerEdits' # callerEdits =>
              \A w \in Workspaces :
                  metricsHistory[w] # NoRef =>
                      heap'[metricsHistory[w]] = heap[metricsHistory[w]]
       /\ (codeReturn.op = "track" /\ callerEdits' = callerEdits) =>
              heap'[codeReturn.ref] = heap[codeReturn.ref]]_vars

----------------------------------------------------------------------------
(* Claims about InsightGenerationServiceImpl *)

\* the score of C7 and C8, written from their statement
C7_Weight(priority) ==
    IF priority = "critical" THEN 4
    ELSE IF priority = "high" THEN 3
    ELSE IF priority = "medium" THEN 2
    ELSE 1
C7_Score(insight) == C7_Weight(insight.priority) * insight.impact * insight.confidence

Elements(s) == {s[i] : i \in 1..Len(s)}

\* C7: getPrioritizedInsights(n) returns min(n, number of insights of the
\* pass) of the insights of the pass, each once, with non-increasing score
\* along the list, and every insight it omits has a score no greater than
\* that of the last one returned.
C7_PrioritizedReturnsTopN ==
    insReturn.op = "prioritized" =>
        LET result == insReturn.result
            all == insReturn.all
            n == insReturn.limit
        IN  /\ Len(result) = (IF n < Len(all) THEN n ELSE Len(all))
            /\ Elements(result) \subseteq Elements(all)
            /\ Cardinality(Elements(result)) = Len(result)
            /\ \A i \in 1..(Len(result) - 1) :
                   C7_Score(result[i]) >= C7_Score(result[i + 1])
            /\ Len(result) > 0 =>
                   \A x \in Elements(all) \ Elements(result) :
                       C7_Score(x) <= C7_Score(result[Len(result)])

\* a limit below the number of insights of a pass that generated them out
\* of score order; the call left out an insight of the pass
C7_Witness ==
    /\ insReturn.op = "prioritized"
    /\ insReturn.limit > 0
    /\ insReturn.limit < Len(insReturn.all)
    /\ \E i, j \in 1..Len(insReturn.all) :
           i < j /\ C7_Score(insReturn.all[i]) < C7_Score(insReturn.all[j])
    /\ Elements(insReturn.all) \ Elements(insReturn.result) # {}

\* C8: in the list getPrioritizedInsights returns, of two insights with
\* equal score the one with the more recent timestamp comes first.
C8_TiesMostRecentFirst ==
    insReturn.op = "prioritized" =>
        \A i, j \in 1..Len(insReturn.result) :
            (i < j /\ C7_Score(insReturn.result[i]) = C7_Score(insReturn.result[j]))
                => insReturn.result[i].timestamp >= insReturn.result[j].timestamp

C9_Order(category) ==
    CASE category = "performance" -> 1
      [] category = "quality" -> 2
      [] category = "productivity" -> 3
      [] category = "security" -> 4

\* C9: getPersonalizedInsights returns the first 5, in generation order
\* (performance, quality, productivity, security), of the insights of its
\* pass whose id is not acknowledged when it filters; it returns no
\* acknowledged insight and no more than 5.
C9_PersonalizedFirstFiveUnacknowledged ==
    insReturn.op = "personalized" =>
        LET result == insReturn.result
            all == insReturn.all
            fresh == {i \in 1..Len(all) : all[i].id \notin insReturn.acknowledged}
            nth(k) == CHOOSE i \in fresh : Cardinality({j \in fresh : j < i}) = k - 1
        IN  /\ Len(result) <= 5
            /\ \A k \in 1..Len(result) : result[k].id \notin insReturn.acknowledged
            /\ \A i, j \in 1..Len(all) :
                   i < j => C9_Order(all[i].category) <= C9_Order(all[j].category)
            /\ Len(result) = (IF Cardinality(fresh) < 5 THEN Cardinality(fresh) ELSE 5)
            /\ \A k \in 1..Len(result) : result[k] = all[nth(k)]

\* a pass of six insights, one of them acknowledged and not the last: the
\* call returned the other five
C9_Witness ==
    /\ insReturn.op = "personalized"
    /\ Len(insReturn.all) = 6
    /\ \E i \in 1..5 : insReturn.all[i].id \in insReturn.acknowledged
    /\ Len(insReturn.result) = 5

\* C10: a call of acknowledgeInsight(id) with an id that an earlier call
\* acknowledged leaves the acknowledged set, and its size, as it was.
C10_AcknowledgeIdempotent ==
    (insReturn.op = "acknowledge" /\ insReturn.id \in insReturn.acknowledged) =>
        /\ acknowledgedInsights = insReturn.acknowledged
        /\ Cardinality(acknowledgedInsights) = Cardinality(insReturn.acknowledged)

\* the id of a generated insight has been acknowledged a second time
C10_Witness ==
    /\ insReturn.op = "acknowledge"
    /\ insReturn.id \in insReturn.acknowledged
    /\ insReturn.id # UnknownId
    /\ ackCount >= 2

FeedbackIds == {insightFeedback[i].id : i \in 1..Len(insightFeedback)}

\* C11: acknowledgeInsight leaves every feedback list and the insight store
\* as they were, and provideInsightFeedback leaves the acknowledged set and
\* the insight store as they were.
C11_AcknowledgementAndFeedbackIndependent ==
    [][/\ ackCount' # ackCount =>
              /\ insightFeedback' = insightFeedback
              /\ generatedInsights' = generatedInsights
       /\ feedbackCount' # feedbackCount =>
              /\ acknowledgedInsights' = acknowledgedInsights
              /\ generatedInsights' = generatedInsights]_vars

\* with insights in the store, one id has feedback and is not acknowledged
\* and another is acknowledged and has no feedback
C11_Witness ==
    /\ generatedInsights # <<>>
    /\ FeedbackIds \ acknowledgedInsights # {}
    /\ acknowledgedInsights \ FeedbackIds # {}

\* C12: getInsightAcceptanceRate returns the number of provideInsightFeedback
\* calls that said helpful over the number of provideInsightFeedback calls
\* (in thousandths), 0 when there was none and 1 when all said helpful, and
\* the call changes nothing.
C12_AcceptanceRateIsHelpfulOverTotal ==
    [][(insReturn' # insReturn /\ insReturn'.op = "rate") =>
          /\ feedbackCount = 0 => insReturn'.value = 0
          /\ feedbackCount > 0 =>
                 insReturn'.value = (helpfulCount * 1000) \div feedbackCount
          /\ (feedbackCount > 0 /\ helpfulCount = feedbackCount) =>
                 insReturn'.value = 1000
          /\ UNCHANGED <<generatedInsights, insightFeedback, acknowledgedInsights,
                         feedbackCount, helpfulCount, cogVars, codeVars>>]_vars

\* the rate of one insight with a helpful and an unhelpful record
C12_Witness ==
    /\ insReturn.op = "rate"
    /\ insReturn.value = 500
    /\ Len(insightFeedback) = 1
    /\ feedbackCount = 2

InsightIds(s) == {s[i].id : i \in 1..Len(s)}

\* generateInsights of caller p stores its pass and returns it
StoreStep(p) == insCall[p].pc = "store" /\ insCall'[p].pc # "store"

\* C13: when generateInsights returns list L, the store holds each insight of
\* L under its id, every entry the store held under an id not in L is as it
\* was, nothing else was added, and no id is stored twice.
C13_StoreIsInsertOrReplaceById ==
    [][\A p \in Procs : StoreStep(p) =>
          LET L == insCall[p].insights
          IN  /\ \A i \in 1..Len(L) : L[i] \in Elements(generatedInsights')
              /\ \A j \in 1..Len(generatedInsights) :
                     generatedInsights[j].id \notin InsightIds(L) =>
                         generatedInsights[j] \in Elements(generatedInsights')
              /\ \A j \in 1..Len(generatedInsights') :
                     \/ generatedInsights'[j] \in Elements(L)
                     \/ generatedInsights'[j] \in Elements(generatedInsights)
              /\ Cardinality(InsightIds(generatedInsights')) = Len(generatedInsights')]_vars

\* generateInsights has returned a pass that replaced a stored insight by a
\* different one of the same id and left another stored insight alone
C13_Witness ==
    /\ insReturn.op = "generate"
    /\ \E i \in 1..Len(insReturn.result) : \E j \in 1..Len(insReturn.before) :
           /\ insReturn.before[j].id = insReturn.result[i].id
           /\ insReturn.before[j] # insReturn.result[i]
           /\ insReturn.result[i] \in Elements(generatedInsights)
    /\ \E j \in 1..Len(insReturn.before) :
           /\ insReturn.before[j].id \notin InsightIds(insReturn.result)
           /\ insReturn.before[j] \in Elements(generatedInsights)

\* C14: no insight a pass stores has the id of an insight an earlier pass
\* stored, so a later pass never overwrites an earlier pass's insight.
C14_InsightIdsDoNotCollide ==
    [][\A p \in Procs : StoreStep(p) =>
          InsightIds(insCall[p].insights) \cap InsightIds(generatedInsights) = {}]_vars

\* the insights of a list built by the rule with suffix k of the
\* generator with the given id prefix
RuleInsights(s, prefix, k) == {x \in Elements(s) : x.id[1] = prefix /\ x.id[3] = k}

\* C15: the quality generator returns the technical-debt insight exactly
\* when totalDebt > 40, of priority critical exactly when totalDebt > 80 and
\* high otherwise, with impact min(100, totalDebt); and, whatever the debt,
\* one more insight of priority critical exactly when the analysis has a
\* critical issue; it returns nothing else.
C15_QualityGeneratorThresholds ==
    (insReturn.op = "category" /\ insReturn.category = "quality") =>
        LET debt == RuleInsights(insReturn.result, "quality", 1)
            issue == RuleInsights(insReturn.result, "quality", 2)
        IN  /\ Cardinality(debt) = (IF collab.totalDebt > 40 THEN 1 ELSE 0)
            /\ \A x \in debt :
                   /\ x.priority = (IF collab.totalDebt > 80 THEN "critical" ELSE "high")
                   /\ x.impact = (IF collab.totalDebt > 100 THEN 100 ELSE collab.totalDebt)
            /\ Cardinality(issue) = (IF collab.criticalIssues >= 1 THEN 1 ELSE 0)
            /\ \A x \in issue : x.priority = "critical"
            /\ Len(insReturn.result) = Cardinality(debt) + Cardinality(issue)
            /\ \A x \in Elements(insReturn.result) : x.category = "quality"

\* at exactly 80 hours and no critical issue the generator returned the
\* debt insight alone, of priority high
C15_Witness ==
    /\ insReturn.op = "category" /\ insReturn.category = "quality"
    /\ collab.totalDebt = 80 /\ collab.criticalIssues = 0
    /\ Len(insReturn.result) = 1
    /\ insReturn.result[1].priority = "high"

\* C16: a pass that called getCognitiveSystemHealth produced the
\* degradation insight exactly when the status was degraded or critical, of
\* priority critical when it was critical and high when it was degraded.
C16_DegradationInsightFollowsStatus ==
    insReturn.status # "none" =>
        LET degradation == RuleInsights(insReturn.all, "perf", 1)
        IN  /\ insReturn.status \in {"healthy", "degraded", "critical"}
            /\ Cardinality(degradation) =
                   (IF insReturn.status \in {"degraded", "critical"} THEN 1 ELSE 0)
            /\ \A x \in degradation :
                   /\ x.category = "performance"
                   /\ x.priority = "critical" <=> insReturn.status = "critical"
                   /\ x.priority = "high" <=> insReturn.status = "degraded"

\* the performance generator returned the insight for a degraded system
C16_Witness ==
    /\ insReturn.op = "category" /\ insReturn.category = "performance"
    /\ insReturn.status = "degraded"
    /\ \E x \in RuleInsights(insReturn.all, "perf", 1) : x.priority = "high"

\* confidence in [0,1] (in thousandths), impact in [0,100], a known priority
C17_InRange(x) ==
    /\ x.confidence >= 0 /\ x.confidence <= 1000
    /\ x.impact >= 0 /\ x.impact <= 100
    /\ x.priority \in {"critical", "high", "medium", "low"}

\* C17: every insight a generator has returned to a pass in flight, every
\* insight a call returned and every insight in the store has confidence in
\* [0,1], impact in [0,100] and one of the four priorities.
C17_InsightsWithinRanges ==
    /\ \A p \in Procs : \A x \in Elements(insCall[p].insights) : C17_InRange(x)
    /\ \A x \in Elements(insReturn.all) : C17_InRange(x)
    /\ \A x \in Elements(insReturn.result) : C17_InRange(x)
    /\ \A x \in Elements(generatedInsights) : C17_InRange(x)

\* 120 hours of debt: the stored and returned debt insight has impact 100
C17_Witness ==
    /\ collab.totalDebt = 120
    /\ \E x \in RuleInsights(generatedInsights, "quality", 1) : x.impact = 100
    /\ \E x \in RuleInsights(insReturn.result, "quality", 1) : x.impact = 100
    /\ \E x \in Elements(generatedInsights) : x.category = "productivity"

----------------------------------------------------------------------------
(* Claims about the queries over a time range *)

\* C18: getHistoricalInsights(range) returns the stored insights with
\* start <= timestamp <= end, each once and no other, in order of
\* non-increasing timestamp, and leaves the store, the acknowledged set and
\* the feedback lists as they were.
C18_HistoricalInsightsInRangeNewestFirst ==
    [][(rangeReturn' # rangeReturn /\ rangeReturn'.op = "getHistoricalInsights") =>
          LET r == rangeReturn'
              expected == {x \in Elements(generatedInsights) :
                              r.start <= x.timestamp /\ x.timestamp <= r.end}
          IN  /\ Elements(r.points) = expected
              /\ Len(r.points) = Cardinality(expected)
              /\ \A i \in 1..(Len(r.points) - 1) :
                     r.points[i].timestamp >= r.points[i + 1].timestamp
              /\ UNCHANGED <<generatedInsights, acknowledgedInsights, insightFeedback>>]_vars

\* a range that ends where it starts returned the insights of that clock
\* value and left out older ones, and a wider range would have returned
\* insights of two clock values
C18_Witness ==
    /\ rangeReturn.op = "getHistoricalInsights"
    /\ rangeReturn.start = 1 /\ rangeReturn.end = 1
    /\ rangeReturn.points # <<>>
    /\ \E x \in Elements(generatedInsights) : x.timestamp = 0
    /\ \E i, j \in 1..Len(generatedInsights) :
           i < j /\ generatedInsights[i].timestamp < generatedInsights[j].timestamp

\* C19: getHistoricalInsights, trackReasoningAccuracy,
\* trackLearningConvergence and getMetricTrend reject a range with
\* start > end with InvalidInput and return no data points.
C19_InvertedRangeRejected ==
    (rangeReturn.op # "none" /\ rangeReturn.start > rangeReturn.end) =>
        /\ rangeReturn.outcome = "InvalidInput"
        /\ rangeReturn.points = <<>>

----------------------------------------------------------------------------
(* Claims about CodeAnalyticsServiceImpl.assessArchitectureQuality *)

Occurrences(s, x) == Cardinality({i \in 1..Len(s) : s[i] = x})

\* C20: for modularity, cohesion, maintainability and testability, a score
\* below 60 puts exactly one entry for the metric in weakPoints and none in
\* strengths, a score above 80 exactly one in strengths and none in
\* weakPoints, and a score from 60 to 80, both included, none in either.
C20_ArchitectureDeadZone ==
    codeReturn.op = "assessArchitectureQuality" =>
        \A metric \in {"modularity", "cohesion", "maintainability", "testability"} :
            LET score == CASE metric = "modularity" -> codeReturn.modularity
                           [] metric = "cohesion" -> codeReturn.cohesion
                           [] metric = "maintainability" -> codeReturn.maintainability
                           [] metric = "testability" -> codeReturn.testability
                inWeak == Occurrences(codeReturn.weakPoints, WeakMessage(metric))
                            + Occurrences(codeReturn.weakPoints, StrengthMessage(metric))
                inStrengths ==
                    Occurrences(codeReturn.strengths, StrengthMessage(metric))
                    + Occurrences(codeReturn.strengths, WeakMessage(metric))
            IN  /\ score < 60 => inWeak = 1 /\ inStrengths = 0
                /\ score > 80 => inWeak = 0 /\ inStrengths = 1
                /\ (60 <= score /\ score <= 80) => inWeak = 0 /\ inStrengths = 0
                /\ Occurrences(codeReturn.weakPoints, StrengthMessage(metric)) = 0
                /\ Occurrences(codeReturn.strengths, WeakMessage(metric)) = 0

\* modularity exactly 60 and cohesion exactly 80 beside a weak and a strong
\* metric: one entry in each list, none for the two on the boundaries
C20_Witness ==
    /\ codeReturn.op = "assessArchitectureQuality"
    /\ codeReturn.modularity = 60 /\ codeReturn.cohesion = 80
    /\ codeReturn.maintainability = 59 /\ codeReturn.testability = 81
    /\ codeReturn.coupling = 35
    /\ codeReturn.weakPoints = <<WeakMessage("maintainability")>>
    /\ codeReturn.strengths = <<StrengthMessage("testability")>>

----------------------------------------------------------------------------
(* Claims about analyzeTechnicalDebt and getCodeQualityScore *)

\* the categories whose analyzer is unavailable
UnavailableCategories == {c \in DOMAIN scan.debt : ~scan.debt[c].ok}

\* C21: when exactly one of the five debt analyzers is unavailable,
\* analyzeTechnicalDebt still resolves: the result holds the hours of the
\* other four categories and their total, and the missing category is left
\* out of it rather than the whole call ending in an error.
C21_OneAnalyzerDownGivesPartialResult ==
    (codeReturn.op = "analyzeTechnicalDebt" /\ Cardinality(UnavailableCategories) = 1)
    => LET present == DOMAIN scan.debt \ UnavailableCategories
       IN  /\ codeReturn.outcome = "resolved"
           /\ \A c \in present :
                \E i \in 1..Len(codeReturn.debtByCategory) :
                    codeReturn.debtByCategory[i] = <<c, scan.debt[c].hours>>
           /\ \A i \in 1..Len(codeReturn.debtByCategory) :
                codeReturn.debtByCategory[i][1] \in present
           /\ codeReturn.totalDebt
                = SumSeq([i \in 1..Len(codeReturn.debtByCategory) |->
                            codeReturn.debtByCategory[i][2]])

----------------------------------------------------------------------------
(* Claims about getOptimizationRecommendations and getCognitiveSystemHealth *)

\* the rules of the claim that fire on metrics m when the history is h: the
\* growth rule compares the newest snapshot with the one ten places before
\* the end (the first, in a shorter history), and a history of fewer than two
\* snapshots counts as growing
C22_Fired(m, h) ==
    LET older == h[IF Len(h) > 10 THEN Len(h) - 9 ELSE 1]
    IN  (IF m.reasoningAccuracy * 10 < 8 * 1000 THEN {RecAccuracy} ELSE {})
        \cup (IF m.reasoningLatency > 200 THEN {RecLatency} ELSE {})
        \cup (IF m.learningConvergence * 10 < 7 * 1000 THEN {RecConvergence} ELSE {})
        \cup (IF m.predictionAccuracy * 100 < 75 * 1000 THEN {RecPrediction} ELSE {})
        \cup (IF Len(h) >= 2
                 /\ (h[Len(h)].knowledgeGraphSize - older.knowledgeGraphSize) * 100
                        < 5 * older.knowledgeGraphSize
              THEN {RecGrowth} ELSE {})

\* C22: getOptimizationRecommendations never returns an empty list: the list
\* holds exactly one entry for each of the five rules that fires, and it
\* holds the "performing optimally" message exactly when no rule fires, as
\* its only entry.
C22_RecommendationsNeverEmpty ==
    [][\A p \in Procs :
         (cogCall[p].pc = "collected" /\ cogCall'[p].pc = "idle")
         => LET fired == C22_Fired(cogCall[p].metrics, performanceHistory)
                result == cogReturn'.result
            IN  /\ Len(result) > 0
                /\ \A r \in fired : Cardinality({i \in 1..Len(result) : result[i] = r}) = 1
                /\ \A i \in 1..Len(result) : result[i] \in fired \cup {RecOptimal}
                /\ (\E i \in 1..Len(result) : result[i] = RecOptimal) <=> fired = {}
                /\ fired = {} => result = <<RecOptimal>>]_vars

\* a call found nothing to recommend on a history in which the knowledge
\* graph has grown
C22_Witness ==
    /\ cogReturn.op = "recommendations"
    /\ cogReturn.result = <<RecOptimal>>
    /\ Len(performanceHistory) >= 2
    /\ performanceHistory[Len(performanceHistory)].n = cogReturn.metrics.n

----------------------------------------------------------------------------
(* Claims about the insight store under concurrent passes *)

\* the fields of an ActionableInsight the model keeps
InsightFields == DOMAIN Insight("perf", 1, "performance", "high", 0, 0, 0)

\* C23: under every interleaving of generateInsights calls and readers, the
\* store changes only in the step in which a pass stores, that step puts
\* every insight of the pass into the store at once, and what
\* getHistoricalInsights returns are whole insights held by the store: no
\* reader sees a partial insight or a part of a pass.
C23_PassInsertionsAreAtomic ==
    [][/\ generatedInsights' # generatedInsights
           => \E p \in Procs :
                 /\ StoreStep(p)
                 /\ \A i \in 1..Len(insCall[p].insights) :
                        insCall[p].insights[i] \in Elements(generatedInsights')
                 /\ \A q \in Procs \ {p} : insCall'[q] = insCall[q]
       /\ \A p \in Procs :
             (insCall[p].pc \notin {"idle", "store"} /\ insCall'[p] # insCall[p])
             => generatedInsights' = generatedInsights
       /\ (rangeReturn' # rangeReturn /\ rangeReturn'.op = "getHistoricalInsights")
           => \A i \in 1..Len(rangeReturn'.points) :
                 /\ rangeReturn'.points[i] \in Elements(generatedInsights)
                 /\ DOMAIN rangeReturn'.points[i] = InsightFields]_vars

\* a reader has read insights out of the store while one pass had stored and
\* another, begun before that, was holding insights it had not stored yet
C23_Witness ==
    /\ rangeReturn.op = "getHistoricalInsights"
    /\ Len(rangeReturn.points) > 0
    /\ Len(generatedInsights) > 0
    /\ \E p \in Procs :
          /\ insCall[p].pc \in {"quality", "productivity", "security", "store"}
          /\ Len(insCall[p].insights) > 0
          /\ \E i \in 1..Len(insCall[p].insights) :
                insCall[p].insights[i] \notin Elements(generatedInsights)

----------------------------------------------------------------------------
(* Claims about getCodeQualityScore *)

\* a <= b, for numbers written without leading zeros
BinaryLeq(a, b) ==
    \/ Len(a) < Len(b)
    \/ /\ Len(a) = Len(b)
       /\ \/ a = b
          \/ LET k == CHOOSE i \in 1..Len(a) :
                         a[i] # b[i] /\ \A j \in (i + 1)..Len(a) : a[j] = b[j]
             IN  a[k] < b[k]

\* the whole number n in the unit of the model, 2^-55
C24_Units(n) == IF n = 0 THEN <<>> ELSE [i \in 1..55 |-> 0] \o Binary(n)

\* a hundred times the exact weighted sum of the sub-scores q
C24_ExactHundredfold(q) ==
    C24_Units(25 * q.complexity + 20 * q.duplication + 25 * q.coverage
              + 15 * q.documentation + 15 * q.styleCompliance)

\* a hundred times 2^-44, in units
C24_Tolerance == Binary(100 * (2 ^ 11))

\* x and y differ by at most 2^-44, both given a hundredfold
C24_Near(x, y) ==
    /\ BinaryLeq(x, BinaryAdd(y, C24_Tolerance, 0))
    /\ BinaryLeq(y, BinaryAdd(x, C24_Tolerance, 0))

C24_AllEqual(q) ==
    /\ q.duplication = q.complexity /\ q.coverage = q.complexity
    /\ q.documentation = q.complexity /\ q.styleCompliance = q.complexity

\* C24 as stated: getCodeQualityScore returns exactly
\* (25c + 20d + 25cov + 15doc + 15style)/100, a value in [0,100] that equals
\* s when all five sub-scores equal s.
C24_QualityScoreIsExactWeightedSum ==
    codeReturn.op = "getCodeQualityScore"
    => /\ BinaryTimes(codeReturn.value, 100, 0) = C24_ExactHundredfold(scan.quality)
       /\ BinaryLeq(codeReturn.value, C24_Units(100))
       /\ C24_AllEqual(scan.quality)
            => codeReturn.value = C24_Units(scan.quality.complexity)

\* C24, amended: getCodeQualityScore returns a value in [0,100] within 2^-44
\* of (25c + 20d + 25cov + 15doc + 15style)/100, hence within 2^-44 of s when
\* all five sub-scores equal s, and exactly s when s is 0 or 100.
C24_QualityScoreIsWeightedSumWithinRounding ==
    codeReturn.op = "getCodeQualityScore"
    => /\ C24_Near(BinaryTimes(codeReturn.value, 100, 0),
                   C24_ExactHundredfold(scan.quality))
       /\ BinaryLeq(codeReturn.value, C24_Units(100))
       /\ (C24_AllEqual(scan.quality) /\ scan.quality.complexity \in {0, 100})
            => codeReturn.value = C24_Units(scan.quality.complexity)

\* the score of five sub-scores of 13 has been returned, and it is not 13
C24_Witness ==
    /\ codeReturn.op = "getCodeQualityScore"
    /\ scan.quality = SubScores(13, 13, 13, 13, 13)
    /\ codeReturn.value # C24_Units(13)
    /\ BinaryLeq(codeReturn.value, C24_Units(13))

----------------------------------------------------------------------------
(* Claims about overlapping trackCodeEvolution calls *)

\* two calls for workspace w, which the map did not hold, have both loaded
\* a history before either stored one, and both have returned; no other call
\* was made
C25_BothOverlappingCallsDone(w) ==
    /\ captureCount = 2
    /\ Len(heap) = 2
    /\ \A q \in Procs : codeCall[q].pc = "idle"
    /\ returned[w] # <<>>
    /\ \A v \in Workspaces \ {w} : returned[v] = <<>>

\* C25: after two overlapping trackCodeEvolution calls for the same
\* previously untracked workspace have completed, the history the engine
\* holds for it contains both captured snapshots (those within retention),
\* and the caller was handed the array the engine holds.
C25_OverlappingCallsKeepBothSnapshots ==
    \A w \in Workspaces :
        C25_BothOverlappingCallsDone(w)
        => /\ \A r \in 1..Len(heap) : \A i \in 1..Len(heap[r]) :
                  heap[r][i].timestamp >= now - RetentionTicks
                  => heap[r][i].n \in Ids(heap[metricsHistory[w]])
           /\ codeReturn.ref = metricsHistory[w]

----------------------------------------------------------------------------
(* Claims about the severity of getCognitiveSystemHealth *)

\* the checks that the observed values o violate
C26_Violated(o) ==
    (IF o[1] < 800 THEN {"accuracy"} ELSE {})
    \cup (IF o[2] > 200 THEN {"latency"} ELSE {})
    \cup (IF o[3] < 600 THEN {"convergence"} ELSE {})
    \cup (IF o[4] < 700 THEN {"prediction"} ELSE {})

\* C26: getCognitiveSystemHealth returns critical only when at least three
\* of its four checks are violated, its score is between 20 and 100, and the
\* issues and the recommendations it returns are as many as the violated
\* checks.
C26_CriticalNeedsThreeViolatedChecks ==
    cogReturn.op = "health" =>
        LET violated == Cardinality(C26_Violated(Observed(cogReturn.metrics)))
        IN  /\ cogReturn.result.status = "critical" => violated >= 3
            /\ HealthScore(cogReturn.metrics) >= 20
            /\ HealthScore(cogReturn.metrics) <= 100
            /\ Len(cogReturn.result.issues) = violated
            /\ Len(cogReturn.result.recommendations) = violated

\* a health call has returned degraded on a snapshot that violates two
\* checks at their heavier level, and the score was 50
C26_Witness ==
    /\ cogReturn.op = "health"
    /\ C26_Violated(Observed(cogReturn.metrics)) = {"accuracy", "latency"}
    /\ HealthScore(cogReturn.metrics) = 50
    /\ cogReturn.result.status = "degraded"
    /\ Len(cogReturn.result.issues) = 2

----------------------------------------------------------------------------
(* Claims about acknowledgement across passes *)

\* insight x is the finding of acknowledged id a, generated at another clock
\* value and not acknowledged itself
C27_SameFindingAgain(x, a, acknowledged) ==
    /\ x.id[1] = a[1] /\ x.id[3] = a[3]
    /\ x.id[2] # a[2]
    /\ x.id \notin acknowledged

\* C27 as stated: whenever a pass of getPersonalizedInsights regenerates, at
\* another clock value, the finding of an acknowledged id, the call returns
\* that insight under its new id.
C27_AcknowledgedFindingReturnedAgain ==
    insReturn.op = "personalized" =>
        \A a \in insReturn.acknowledged : \A i \in 1..Len(insReturn.all) :
            C27_SameFindingAgain(insReturn.all[i], a, insReturn.acknowledged)
            => insReturn.all[i] \in Elements(insReturn.result)

\* C27, amended: such an insight is not held back by the acknowledgement; the
\* call returns it unless five unacknowledged insights of the pass come
\* before it.
C27_AcknowledgementSuppressesOnlySameId ==
    insReturn.op = "personalized" =>
        \A a \in insReturn.acknowledged : \A i \in 1..Len(insReturn.all) :
            C27_SameFindingAgain(insReturn.all[i], a, insReturn.acknowledged)
            => \/ insReturn.all[i] \in Elements(insReturn.result)
               \/ Cardinality({j \in 1..(i - 1) :
                                  insReturn.all[j].id \notin insReturn.acknowledged}) >= 5

\* an insight was acknowledged, the clock moved on, and getPersonalizedInsights
\* has returned the same finding under a new id
C27_Witness ==
    /\ insReturn.op = "personalized"
    /\ \E a \in insReturn.acknowledged : \E i \in 1..Len(insReturn.result) :
          /\ C27_SameFindingAgain(insReturn.result[i], a, insReturn.acknowledged)
          /\ a[2] < insReturn.result[i].id[2]

----------------------------------------------------------------------------
(* Claims about what the generating methods store *)

\* C28: generateInsightsByCategory(c) returns only insights of category c,
\* none for collaboration, and no step of it changes the store, the
\* acknowledged set or the feedback; generateInsights, getPrioritizedInsights
\* and getPersonalizedInsights have put every insight of their pass into the
\* store when they return, those they do not return included.
C28_OnlyCategoryCallLeavesStoreAlone ==
    [][\A p \in Procs :
         /\ (insCall'[p] # insCall[p]
                /\ (insCall[p].op = "category" \/ insCall'[p].op = "category"))
             => UNCHANGED <<generatedInsights, acknowledgedInsights, insightFeedback>>
         /\ (insCall[p].pc = "return" /\ insCall'[p].pc = "idle")
             => /\ \A i \in 1..Len(insReturn'.result) :
                       insReturn'.result[i].category = insCall[p].category
                /\ insCall[p].category = "collaboration" => insReturn'.result = <<>>
         /\ (insCall[p].op \in {"generate", "prioritized", "personalized"}
                /\ insCall'[p].pc = "idle")
             => \A i \in 1..Len(insCall[p].insights) :
                    insCall[p].insights[i] \in Elements(generatedInsights')]_vars

\* a pass has filled the store, one of its insights was acknowledged, and a
\* later generateInsightsByCategory call has returned insights
C28_Witness ==
    /\ insReturn.op = "category"
    /\ Len(insReturn.result) > 0
    /\ Len(generatedInsights) > 2
    /\ acknowledgedInsights # {}
    /\ passCount = MaxPasses

----------------------------------------------------------------------------
(* Claims about the side effects of reading *)

\* the step appends one new snapshot to the performance history and, when
\* the history was full, drops its oldest
C29_AppendsOne ==
    LET kept == IF Len(performanceHistory) = MAX_HISTORY_SIZE
                THEN Tail(performanceHistory) ELSE performanceHistory
    IN  /\ Len(performanceHistory') = Len(kept) + 1
        /\ SubSeq(performanceHistory', 1, Len(kept)) = kept
        /\ \A i \in 1..Len(performanceHistory) :
               performanceHistory[i].n # performanceHistory'[Len(kept) + 1].n

\* C29: every getCognitiveSystemHealth call and every
\* getOptimizationRecommendations call appends exactly one snapshot to the
\* performance history (dropping the oldest of a full history), hence so
\* does every generation pass, through its health call; the other steps of
\* these calls, trackReasoningAccuracy and trackLearningConvergence leave the
\* history as it is.
C29_ReadingHealthAppendsSnapshot ==
    [][/\ \A p \in Procs :
             cogCall'[p] # cogCall[p]
             => IF cogCall[p].pc = "started"
                THEN C29_AppendsOne
                ELSE performanceHistory' = performanceHistory
       /\ \A p \in Procs :
             insCall'[p] # insCall[p]
             => IF insCall[p].pc = "health"
                THEN C29_AppendsOne
                ELSE performanceHistory' = performanceHistory
       /\ rangeReturn' # rangeReturn => performanceHistory' = performanceHistory]_vars

\* a generation pass has pushed the snapshot that evicted the oldest one,
\* after a health or recommendations call, and a tracking query has run
C29_Witness ==
    /\ pushCount > MAX_HISTORY_SIZE
    /\ Len(performanceHistory) = MAX_HISTORY_SIZE
    /\ passCount >= 1
    /\ insReturn.op = "generate"
    /\ cogReturn.op \in {"health", "recommendations"}
    /\ rangeReturn.op = "trackReasoningAccuracy"
    /\ Len(rangeReturn.points) = MAX_HISTORY_SIZE

----------------------------------------------------------------------------
(* Claims about what feedback keeps *)

\* the feedback list of id x, empty when the map has no entry for x
C30_ListOf(feedback, x) ==
    IF \E i \in 1..Len(feedback) : feedback[i].id = x
    THEN feedback[CHOOSE i \in 1..Len(feedback) : feedback[i].id = x].list
    ELSE <<>>

\* the number of records over all feedback lists
C30_Records(feedback) == SumSeq([i \in 1..Len(feedback) |-> Len(feedback[i].list)])

\* C30: provideInsightFeedback succeeds for every id, one no pass produced
\* included: it appends exactly one record to the end of that id's list,
\* keeps every earlier record of every id in its order, and
\* getInsightAcceptanceRate counts the new record; no operation removes a
\* feedback record, an acknowledged id or a stored insight.
C30_FeedbackAppendsAndNothingIsRemoved ==
    /\ [](feedbackCount < MaxFeedback =>
              \A helpful \in BOOLEAN : ENABLED ProvideInsightFeedback(UnknownId, helpful))
    /\ [][/\ feedbackCount' # feedbackCount =>
               LET id == insReturn'.id
                   helpful == helpfulCount' # helpfulCount
               IN  /\ insReturn'.op = "feedback"
                   /\ C30_ListOf(insightFeedback', id)
                          = Append(C30_ListOf(insightFeedback, id), [helpful |-> helpful])
                   /\ \A x \in FeedbackIds \ {id} :
                          C30_ListOf(insightFeedback', x) = C30_ListOf(insightFeedback, x)
                   /\ C30_Records(insightFeedback') = C30_Records(insightFeedback) + 1
                   /\ C30_Records(insightFeedback') = feedbackCount'
                   /\ InsightAcceptanceRate(insightFeedback')
                          = (helpfulCount' * 1000) \div feedbackCount'
          /\ Len(insightFeedback') >= Len(insightFeedback)
          /\ \A i \in 1..Len(insightFeedback) :
                 /\ insightFeedback'[i].id = insightFeedback[i].id
                 /\ Len(insightFeedback'[i].list) >= Len(insightFeedback[i].list)
                 /\ SubSeq(insightFeedback'[i].list, 1, Len(insightFeedback[i].list))
                        = insightFeedback[i].list
          /\ acknowledgedInsights \subseteq acknowledgedInsights'
          /\ InsightIds(generatedInsights) \subseteq InsightIds(generatedInsights')]_vars

\* an id that no pass produced has two records, the second just appended
\* after an unhelpful first, with insights stored and one acknowledged
C30_Witness ==
    /\ insReturn.op = "feedback"
    /\ insReturn.id = UnknownId
    /\ UnknownId \notin InsightIds(generatedInsights)
    /\ C30_ListOf(insightFeedback, UnknownId) = <<[helpful |-> FALSE], [helpful |-> TRUE]>>
    /\ generatedInsights # <<>>
    /\ acknowledgedInsights # {}

====
